---- MODULE Spec2Model ----
(***************************************************************************)
(* Model of the FPL fetch-and-ingest pipeline (src/src/fetcher.py,         *)
(* src/src/database.py, src/src/app.py).                                   *)
(*                                                                         *)
(*   SpecFetch  - fetch_player_history_batch: super-batches, worker pool,  *)
(*                completion-ordered collection.                           *)
(*   SpecDb     - DatabaseManager scope around insert_player_history, on a *)
(*                PostgreSQL connection driven through psycopg2.          *)
(*   SpecSelect - the strategy selection of insert_player_history as a     *)
(*                function of the record count and the threshold.          *)
(*   SpecVacuum - vacuum_analyze_table on a connection in any state.       *)
(*   SpecTwo    - fetch_independent_endpoints_parallel: two tasks, pool    *)
(*                of 2.                                                    *)
(*   SpecPipe   - the database step of run_new_pipeline and of             *)
(*                run_bootstrap_pipeline: entity groups, scopes, commits.  *)
(*   SpecEndToEnd - player history from the concurrent fetch through the   *)
(*                parse loop to storage.                                   *)
(*   SpecRun    - main: one pipeline from the fetch to the exit status.    *)
(*   SpecCall   - one insert function called alone on an open connection.  *)
(*   SpecFetchLive - SpecFetch under fair scheduling.                      *)
(*   SpecPeriod - the current-gameweek resolution of run_new_pipeline.     *)
(*   SpecOrder  - run_new_pipeline with its fetches run task by task.      *)
(*   SpecMgr    - DatabaseManager on a connection whose calls may fail.    *)
(***************************************************************************)
EXTENDS Integers, Sequences, FiniteSets, TLC

\* ------------------------------------------------------------------ bounds
\* Longest key list handed to fetch_player_history_batch: the lists longer
\* than MaxPoolKeys are tried with a pool of one worker (so that a second
\* super-batch occurs) and hold the player ids in rotation.
MaxKeys == 6
\* Player ids are 1..MaxPlayer.
MaxPlayer == 2
\* Gameweek ids (the "round" of a history entry) are 1..MaxGameweek.
MaxGameweek == 1
\* Longest history list one element-summary response carries.
MaxHistory == 1
\* Largest worker pool size (max_workers) tried.
MaxWorkers == 2
\* Every key list up to this length is tried, with every pool size.
MaxPoolKeys == 3

\* ---------------------------------------------------------------- helpers
Min(a, b) == IF a <= b THEN a ELSE b

BoundedSeq(S, n) == UNION {[1..m -> S] : m \in 0..n}

PlayerIds == 1..MaxPlayer

GameweekIds == 1..MaxGameweek

\* ================================================================= fetcher
\* A history list as the API serves it: the rounds of its entries, in order.
Histories == BoundedSeq(GameweekIds, MaxHistory)

\* What the remote source does with one GET of /element-summary/<id>/:
\* status is "ok" or the requests/JSON failure, isDict says whether the JSON
\* body is an object, hasHistory whether it has a 'history' key.
Responses ==
    [status : {"ok"}, isDict : {TRUE}, hasHistory : {TRUE}, history : Histories]
    \cup [status : {"ok"}, isDict : {TRUE}, hasHistory : {FALSE}, history : {<<>>}]
    \cup [status : {"ok"}, isDict : {FALSE}, hasHistory : {FALSE}, history : {<<>>}]
    \cup [status : {"HTTPError", "ConnectionError", "Timeout", "RequestException",
                    "ValueError"},
          isDict : {FALSE}, hasHistory : {FALSE}, history : {<<>>}]

\* A call's outcome: exc is "none" or the exception raised; isNone/history is
\* the returned Optional[List].
Returned(isNone, history) == [exc |-> "none", isNone |-> isNone, history |-> history]

Raised(exc) == [exc |-> exc, isNone |-> TRUE, history |-> <<>>]

\* fetch_endpoint: every requests failure and a JSON decode failure become
\* FPLAPIError; otherwise the decoded body is returned (here: the response).
fetch_endpoint(resp) ==
    IF resp.status = "ok" THEN [exc |-> "none", data |-> resp]
    ELSE [exc |-> "FPLAPIError", data |-> resp]

\* Mutant of fetch_player_history: an FPLAPIError yields the default [] of
\* data.get('history', []) instead of None.
fetch_player_history_empty_on_error(resp) ==
    LET r == fetch_endpoint(resp) IN
    IF r.exc = "FPLAPIError" THEN Returned(FALSE, <<>>)
    ELSE IF ~r.data.isDict THEN Raised("AttributeError")
    ELSE IF r.data.hasHistory THEN Returned(FALSE, r.data.history)
    ELSE Returned(FALSE, <<>>)

\* fetch_player_history: data.get('history', []) ; FPLAPIError -> None; a body
\* that is no dict has no .get and raises AttributeError, which is not caught
\* here.
fetch_player_history(resp) ==
    LET r == fetch_endpoint(resp) IN
    IF r.exc = "FPLAPIError" THEN Returned(TRUE, <<>>)
    ELSE IF ~r.data.isDict THEN Raised("AttributeError")
    ELSE IF r.data.hasHistory THEN Returned(FALSE, r.data.history)
    ELSE Returned(FALSE, <<>>)

\* fetch_single_player: the task run by a worker; any exception -> (id, None).
\* The result is what the Future holds: raised says future.result() raises.
fetch_single_player(player_id, resp) ==
    LET h == fetch_player_history(resp) IN
    IF h.exc = "none"
    THEN [raised |-> FALSE, player_id |-> player_id, isNone |-> h.isNone,
          history |-> h.history]
    ELSE [raised |-> FALSE, player_id |-> player_id, isNone |-> TRUE,
          history |-> <<>>]

\* The (player_id, history_data) tuple appended for a completed future:
\* future.result(), or (futures[future], None) when it raises.
collect_result(key, fut) ==
    IF fut.raised THEN [player_id |-> key, isNone |-> TRUE, history |-> <<>>]
    ELSE [player_id |-> fut.player_id, isNone |-> fut.isNone, history |-> fut.history]

NoFuture == [raised |-> FALSE, player_id |-> 0, isNone |-> TRUE, history |-> <<>>]

VARIABLES
    player_ids,     \* the key list K given to the call
    max_workers,    \* pool size W
    fpc,            \* "loop" | "collect" | "returned" | "raised"
    i,              \* offset of the current super-batch (range(0, len, batch_size))
    fstate,         \* per position: "new" | "queued" | "running" | "finished" | "collected"
    futures,        \* per position: what the task's Future holds once finished
    remote,         \* per position: "unset" | "ok" | "failed" (what the remote did)
    served,         \* per position: the history the remote served (when ok)
    batch_results,  \* results collected for the current super-batch
    results,        \* results of the completed super-batches
    requests,       \* per position: GETs issued
    sleeps          \* pacing sleeps performed

fvars == <<player_ids, max_workers, fpc, i, fstate, futures, remote, served,
           batch_results, results, requests, sleeps>>

VARIABLES
    config,         \* what get_config() returns for the storage settings
    table,          \* player_history as committed in the database: a set of rows
    lastc,          \* per natural key: total_points of the last committed upsert (0: none)
    conn,           \* the psycopg2 connection of the current scope
    scope,          \* "outside" | "inside" | "body_done" | "closed"
    call,           \* the insert_player_history call made in the scope's body
    exit_log        \* what DatabaseManager.__exit__ did to the connection

dvars == <<config, table, lastc, conn, scope, call, exit_log>>

VARIABLES
    sel             \* one strategy selection: record count, threshold, strategy

VARIABLES
    two,            \* a call of fetch_independent_endpoints_parallel
    pipe,           \* a run of the pipeline's database step (app.py, step 4)
    app             \* a run of main: steps 1 to 3 of a pipeline and the exit

VARIABLES
    period,         \* the current-gameweek resolution of one run_new_pipeline
    mgr             \* one DatabaseManager scope on a connection that may be lost

vars == <<fvars, dvars, sel, two, pipe, app, period, mgr>>

\* A super-batch of one pool's worth of keys.
fetch_batch_size_one_pool == max_workers

\* batch_size = max_workers * 5
fetch_batch_size == max_workers * 5

Positions == 1..Len(player_ids)

\* positions of the super-batch player_ids[i:i + batch_size]
BatchPositions == (i + 1)..Min(i + fetch_batch_size, Len(player_ids))

Running == {p \in Positions : fstate[p] = "running"}

\* Whether the remote's answer is a failure of the fetch: anything but a
\* decoded JSON object.
IsFailure(resp) == resp.status # "ok" \/ ~resp.isDict

\* The history a successful answer carries.
ServedHistory(resp) == IF resp.hasHistory THEN resp.history ELSE <<>>

\* The key list 1, 2, .., MaxPlayer, 1, 2, .. of length n.
RoundRobin(n) == [p \in 1..n |-> ((p - 1) % MaxPlayer) + 1]

\* The key lists tried with a pool of w workers.
KeyLists(w) ==
    BoundedSeq(PlayerIds, MaxPoolKeys)
    \cup (IF w = 1 THEN {RoundRobin(n) : n \in 0..MaxKeys} ELSE {})

InitFetch ==
    /\ max_workers \in 1..MaxWorkers
    /\ player_ids \in KeyLists(max_workers)
    /\ fpc = "loop"
    /\ i = 0
    /\ fstate = [p \in Positions |-> "new"]
    /\ futures = [p \in Positions |-> NoFuture]
    /\ remote = [p \in Positions |-> "unset"]
    /\ served = [p \in Positions |-> <<>>]
    /\ batch_results = <<>>
    /\ results = <<>>
    /\ requests = [p \in Positions |-> 0]
    /\ sleeps = 0

\* with ThreadPoolExecutor(max_workers) as executor: submit one task per key of
\* the super-batch.
SubmitBatch ==
    /\ fpc = "loop"
    /\ i < Len(player_ids)
    /\ fstate' = [p \in Positions |-> IF p \in BatchPositions THEN "queued" ELSE fstate[p]]
    /\ batch_results' = <<>>
    /\ fpc' = "collect"
    /\ UNCHANGED <<player_ids, max_workers, i, futures, remote, served, results,
                   requests, sleeps, dvars, sel, two, pipe, app, period, mgr>>

\* A pool that starts a thread for every submitted task.
worker_free_unbounded(running, workers) == TRUE

\* ThreadPoolExecutor(max_workers=max_workers): a queued task starts only
\* while fewer than max_workers worker threads are busy.
worker_free(running, workers) == running < workers

\* A free worker takes the oldest queued task and issues its GET.
StartTask(p) ==
    /\ fpc = "collect"
    /\ fstate[p] = "queued"
    /\ \A q \in Positions : fstate[q] = "queued" => p <= q
    /\ worker_free(Cardinality(Running), max_workers)
    /\ fstate' = [fstate EXCEPT ![p] = "running"]
    /\ requests' = [requests EXCEPT ![p] = @ + 1]
    /\ UNCHANGED <<player_ids, max_workers, fpc, i, futures, remote, served,
                   batch_results, results, sleeps, dvars, sel, two, pipe, app, period, mgr>>

\* A task that goes back to the queue when its request failed.
task_after_requeue_failed(resp) == IF IsFailure(resp) THEN "queued" ELSE "finished"

\* fetch_single_player calls fetch_player_history once, and fetch_endpoint
\* issues one requests.get: whatever the answer, the task returns.
task_after(resp) == "finished"

\* The request of a running task completes (or times out) and the task ends.
FinishTask(p) ==
    /\ fstate[p] = "running"
    /\ \E resp \in Responses :
        /\ futures' = [futures EXCEPT ![p] = fetch_single_player(player_ids[p], resp)]
        /\ remote' = [remote EXCEPT ![p] = IF IsFailure(resp) THEN "failed" ELSE "ok"]
        /\ served' = [served EXCEPT ![p] = IF IsFailure(resp) THEN <<>>
                                           ELSE ServedHistory(resp)]
        /\ fstate' = [fstate EXCEPT ![p] = task_after(resp)]
    /\ UNCHANGED <<player_ids, max_workers, fpc, i, batch_results, results,
                   requests, sleeps, dvars, sel, two, pipe, app, period, mgr>>

\* as_completed yields a finished future; its result is appended.
Collect(p) ==
    /\ fpc = "collect"
    /\ fstate[p] = "finished"
    /\ batch_results' = Append(batch_results, collect_result(player_ids[p], futures[p]))
    /\ fstate' = [fstate EXCEPT ![p] = "collected"]
    /\ UNCHANGED <<player_ids, max_workers, fpc, i, futures, remote, served,
                   results, requests, sleeps, dvars, sel, two, pipe, app, period, mgr>>

\* A sleep after every super-batch.
sleep_due_always(off, size, n) == TRUE

\* if i + batch_size < len(player_ids): time.sleep(delay_between_batches)
sleep_due(off, size, n) == off + size < n

\* All futures of the super-batch are collected: results.extend, the executor
\* shuts down, and the pacing sleep runs when another super-batch follows.
EndBatch ==
    /\ fpc = "collect"
    /\ \A p \in BatchPositions : fstate[p] = "collected"
    /\ results' = results \o batch_results
    /\ sleeps' = IF sleep_due(i, fetch_batch_size, Len(player_ids))
                  THEN sleeps + 1 ELSE sleeps
    /\ i' = i + fetch_batch_size
    /\ fpc' = "loop"
    /\ UNCHANGED <<player_ids, max_workers, fstate, futures, remote, served,
                   batch_results, requests, dvars, sel, two, pipe, app, period, mgr>>

\* After the loop: the success rate successful_fetches/len(results) is
\* computed for the log line, then results is returned. With no results the
\* division raises ZeroDivisionError.
FinishFetch ==
    /\ fpc = "loop"
    /\ i >= Len(player_ids)
    /\ fpc' = IF Len(results) = 0 THEN "raised" ELSE "returned"
    /\ UNCHANGED <<player_ids, max_workers, i, fstate, futures, remote, served,
                   batch_results, results, requests, sleeps, dvars, sel, two, pipe, app, period, mgr>>

\* The fetcher at rest, for the specifications that do not run it.
FetchIdle ==
    /\ player_ids = <<>>
    /\ max_workers = 1
    /\ fpc = "idle"
    /\ i = 0
    /\ fstate = <<>>
    /\ futures = <<>>
    /\ remote = <<>>
    /\ served = <<>>
    /\ batch_results = <<>>
    /\ results = <<>>
    /\ requests = <<>>
    /\ sleeps = 0

NextFetch ==
    \/ SubmitBatch
    \/ \E p \in Positions : StartTask(p)
    \/ \E p \in Positions : FinishTask(p)
    \/ \E p \in Positions : Collect(p)
    \/ EndBatch
    \/ FinishFetch

\* ================================================================= storage
\* total_points values are 1..MaxVal; total_points stands for every non-key
\* column (the statement sets them all from EXCLUDED).
MaxVal == 2
\* Longest record list handed to insert_player_history.
MaxLen == 3
\* Most records of one list that the database rejects.
MaxFlawed == 1
\* batch_size: 1000 in the code (database.py), scaled down
\* so that a list of MaxLen records spans more than one batch.
batch_size == 2
\* vacuum_threshold: 1000 by default (config.py), scaled down.
vacuum_threshold == 1

\* The natural keys (player_id, gameweek_id): player p has rounds
\* 1..MaxPlayer + 1 - p, so that keys share a player and share a round.
NaturalKeys == {k \in PlayerIds \X (1..MaxPlayer) : k[1] + k[2] <= MaxPlayer + 1}

Key(r) == <<r.player_id, r.gameweek_id>>

\* What the database answers to the upsert of a row: "none" (accepted) or the
\* psycopg2 error class it raises for it.
Flaws == {"IntegrityError", "DataError", "OperationalError"}

\* PlayerHistory records; flaw is the database's verdict on the row (a
\* violated constraint, a value the column type rejects, ...).
Records ==
    {[player_id |-> k[1], gameweek_id |-> k[2], total_points |-> v, flaw |-> "none"] :
        k \in NaturalKeys, v \in 1..MaxVal}
    \cup {[player_id |-> k[1], gameweek_id |-> k[2], total_points |-> 1, flaw |-> f] :
        k \in NaturalKeys, f \in Flaws}

RecordLists ==
    {R \in BoundedSeq(Records, MaxLen) :
        Cardinality({j \in DOMAIN R : R[j].flaw # "none"}) <= MaxFlawed}

Row(rec) == [player_id |-> rec.player_id, gameweek_id |-> rec.gameweek_id,
             total_points |-> rec.total_points]

\* get_config(): bulk_insert_threshold, enable_vacuum_after_bulk and
\* vacuum_threshold come from the environment.
Configs == [bulk_insert_threshold : {1, MaxLen},
            enable_vacuum_after_bulk : BOOLEAN,
            vacuum_threshold : {vacuum_threshold}]

\* Mutant of upsert_row: ON CONFLICT ... DO NOTHING.
upsert_row_do_nothing(rows, rec) ==
    IF \E r \in rows : Key(r) = Key(rec) THEN rows ELSE rows \cup {Row(rec)}

\* Mutant of upsert_row: ON CONFLICT ... DO UPDATE SET total_points =
\* player_history.total_points + EXCLUDED.total_points (capped at MaxVal).
upsert_row_accumulate(rows, rec) ==
    IF \E r \in rows : Key(r) = Key(rec)
    THEN {IF Key(r) = Key(rec)
          THEN [r EXCEPT !.total_points = Min(MaxVal, @ + rec.total_points)]
          ELSE r : r \in rows}
    ELSE rows \cup {Row(rec)}

\* INSERT INTO player_history (...) VALUES (...)
\* ON CONFLICT (player_id, gameweek_id) DO UPDATE SET col = EXCLUDED.col, ...
\* applied to the rows visible to the transaction.
upsert_row(rows, rec) ==
    IF \E r \in rows : Key(r) = Key(rec)
    THEN {IF Key(r) = Key(rec) THEN Row(rec) ELSE r : r \in rows}
    ELSE rows \cup {Row(rec)}

\* The state an insert function works on: the committed table, the
\* connection (view: the rows its transaction sees; status: psycopg2's
\* transaction status; autocommit), the per-key record of the last upsert
\* (lastc committed, lastv in the view), and what the call did so far (log:
\* the cursor and connection calls; failed: the keys logged as failed;
\* deduped: deduplicated_history).
Logged(st, op, rows, exc) ==
    [st EXCEPT !.log = Append(@, [op |-> op, rows |-> rows, exc |-> exc])]

Ok(st) == [st |-> st, exc |-> "none"]

Exc(st, exc) == [st |-> st, exc |-> exc]

\* One upsert statement for one row, as PostgreSQL runs it: refused while the
\* transaction is in the failed state (InFailedSqlTransaction, an
\* InternalError); a rejected row puts the transaction in the failed state.
exec_row(st, rec) ==
    IF st.status = "inerror" THEN Exc(st, "InternalError")
    ELSE IF rec.flaw # "none"
    THEN Exc([st EXCEPT !.status = IF st.autocommit THEN "idle" ELSE "inerror"], rec.flaw)
    ELSE LET applied(v, l) ==
                 IF st.autocommit
                 THEN [st EXCEPT !.view = v, !.lastv = l, !.table = v, !.lastc = l]
                 ELSE [st EXCEPT !.view = v, !.lastv = l, !.status = "intrans"]
         IN Ok(applied(upsert_row(st.view, rec),
                       [st.lastv EXCEPT ![Key(rec)] = rec.total_points]))

RECURSIVE run_rows(_, _, _)
run_rows(st, rows, j) ==
    IF j > Len(rows) THEN Ok(st)
    ELSE LET then(r) == IF r.exc # "none" THEN r ELSE run_rows(r.st, rows, j + 1)
         IN then(exec_row(st, rows[j]))

\* cursor.executemany(insert_sql, batch): one statement per row, in order,
\* stopping at the first that raises.
executemany(st, batch) ==
    LET done(r) == Exc(Logged(r.st, "executemany", batch, r.exc), r.exc)
    IN done(run_rows(st, batch, 1))

\* cursor.execute(insert_sql, row)
execute(st, rec) ==
    LET done(r) == Exc(Logged(r.st, "execute", <<rec>>, r.exc), r.exc)
    IN done(exec_row(st, rec))

\* The first row of a multi-row statement that makes it fail: a row the
\* database rejects, or a row whose key an earlier row of the statement has
\* (ON CONFLICT DO UPDATE cannot affect a row a second time). 0: none.
FirstOffending(rows) ==
    LET bad == {j \in 1..Len(rows) :
                    \/ rows[j].flaw # "none"
                    \/ \E h \in 1..(j - 1) : Key(rows[h]) = Key(rows[j])}
    IN IF bad = {} THEN 0 ELSE CHOOSE j \in bad : \A h \in bad : j <= h

\* execute_values(cursor, insert_sql, batch_data, page_size=batch_size): the
\* batch is one page, hence one multi-row statement, applied whole or not at
\* all.
execute_values(st, batch) ==
    LET outcome(j) == IF st.status = "inerror" THEN "InternalError"
                      ELSE IF j = 0 THEN "none"
                      ELSE IF batch[j].flaw # "none" THEN batch[j].flaw
                      ELSE "ProgrammingError"
        after(exc) == IF exc = "none" THEN run_rows(st, batch, 1).st
                      ELSE IF st.status = "inerror" \/ st.autocommit THEN st
                      ELSE [st EXCEPT !.status = "inerror"]
        done(exc) == Exc(Logged(after(exc), "execute_values", batch, exc), exc)
    IN done(outcome(FirstOffending(batch)))

\* conn.commit(): COMMIT; in the failed state PostgreSQL rolls back instead.
commit(st) ==
    LET keep == st.status # "inerror" IN
    Logged([st EXCEPT !.table = IF keep THEN st.view ELSE st.table,
                      !.view = IF keep THEN st.view ELSE st.table,
                      !.lastc = IF keep THEN st.lastv ELSE st.lastc,
                      !.lastv = IF keep THEN st.lastv ELSE st.lastc,
                      !.status = "idle"],
           "commit", <<>>, "none")

\* conn.rollback()
rollback(st) ==
    Logged([st EXCEPT !.view = st.table, !.lastv = st.lastc, !.status = "idle"],
           "rollback", <<>>, "none")

\* ------------------------------------------------ insert_player_history_*
\* Mutant of standard_batch_handler: a DataError is retried row by row like an
\* IntegrityError.
standard_batch_handler_retry_data(exc) ==
    IF exc = "none" THEN "next"
    ELSE IF exc \in {"IntegrityError", "DataError"} THEN "retry"
    ELSE "raise"

\* The except clauses around cursor.executemany in the Standard strategy:
\* IntegrityError -> retry the batch row by row; DataError and every other
\* psycopg2.Error -> re-raise.
standard_batch_handler(exc) ==
    IF exc = "none" THEN "next"
    ELSE IF exc = "IntegrityError" THEN "retry"
    ELSE "raise"

\* A retry that first rolls the failed transaction back.
RECURSIVE retry_rows_after_rollback(_, _, _)
retry_rows_after_rollback(st, batch, j) ==
    IF j > Len(batch) THEN Ok(st)
    ELSE LET then(r) ==
                 IF r.exc = "none" THEN retry_rows_after_rollback(r.st, batch, j + 1)
                 ELSE IF r.exc = "IntegrityError"
                 THEN retry_rows_after_rollback(
                          [r.st EXCEPT !.failed = Append(@, Key(batch[j]))], batch, j + 1)
                 ELSE r
         IN then(execute(IF j = 1 THEN rollback(st) ELSE st, batch[j]))

\* for j, item in enumerate(batch): cursor.execute(insert_sql, item); an
\* IntegrityError of the row is logged with its key and skipped, any other
\* exception leaves the loop.
RECURSIVE retry_rows(_, _, _)
retry_rows(st, batch, j) ==
    IF j > Len(batch) THEN Ok(st)
    ELSE LET then(r) ==
                 IF r.exc = "none" THEN retry_rows(r.st, batch, j + 1)
                 ELSE IF r.exc = "IntegrityError"
                 THEN retry_rows([r.st EXCEPT !.failed = Append(@, Key(batch[j]))],
                                 batch, j + 1)
                 ELSE r
         IN then(execute(st, batch[j]))

\* Mutant of batch_slice: the slices are taken from the end of the list.
batch_slice_from_end(data, off) ==
    SubSeq(data, IF Len(data) - off - batch_size + 1 < 1 THEN 1
                 ELSE Len(data) - off - batch_size + 1,
           Len(data) - off)

\* batch = data[i:i + batch_size]
batch_slice(data, off) == SubSeq(data, off + 1, Min(off + batch_size, Len(data)))

\* Mutant of standard_batches: conn.commit() runs after every batch.
RECURSIVE standard_batches_commit_each(_, _, _)
standard_batches_commit_each(st, data, off) ==
    IF off >= Len(data) THEN Ok(st)
    ELSE LET then(r) ==
                 IF r.exc = "none"
                 THEN standard_batches_commit_each(commit(r.st), data, off + batch_size)
                 ELSE r
         IN then(executemany(st, batch_slice(data, off)))

\* for i in range(0, len(history_data), batch_size): ... (Standard)
RECURSIVE standard_batches(_, _, _)
standard_batches(st, data, off) ==
    IF off >= Len(data) THEN Ok(st)
    ELSE LET retried(q) ==
                 IF q.exc = "none" THEN standard_batches(q.st, data, off + batch_size)
                 ELSE q
             handled(batch, r, h) ==
                 IF h = "next" THEN standard_batches(r.st, data, off + batch_size)
                 ELSE IF h = "retry" THEN retried(retry_rows(r.st, batch, 1))
                 ELSE r
             then(batch, r) == handled(batch, r, standard_batch_handler(r.exc))
             run(batch) == then(batch, executemany(st, batch))
         IN run(batch_slice(data, off))

\* insert_player_history_standard: the batches, then conn.commit(); on any
\* exception conn.rollback() and re-raise.
insert_player_history_standard(st, player_history) ==
    LET done(r) == IF r.exc = "none" THEN Ok(commit(r.st))
                   ELSE Exc(rollback(r.st), r.exc)
    IN done(standard_batches(st, player_history, 0))

\* The deduplication loop of insert_player_history_optimized: seen holds the
\* keys met so far, a record whose key is in seen is passed over.
RECURSIVE dedupe_from(_, _, _, _)
dedupe_from(player_history, j, seen, out) ==
    IF j > Len(player_history) THEN out
    ELSE LET step(key) ==
                 IF key \notin seen
                 THEN dedupe_from(player_history, j + 1, seen \cup {key},
                                  Append(out, player_history[j]))
                 ELSE dedupe_from(player_history, j + 1, seen, out)
         IN step(Key(player_history[j]))

\* Mutant of deduplicated_history: the latest record of each key is kept.
dedupe_keep_last(player_history) ==
    LET keep == {j \in 1..Len(player_history) :
                    \A h \in (j + 1)..Len(player_history) :
                        Key(player_history[h]) # Key(player_history[j])}
        f == CHOOSE g \in [1..Cardinality(keep) -> keep] :
                \A a, b \in 1..Cardinality(keep) : a < b => g[a] < g[b]
    IN [j \in 1..Cardinality(keep) |-> player_history[f[j]]]

\* Mutant of deduplicated_history: no deduplication.
dedupe_nothing(player_history) == player_history

deduplicated_history(player_history) == dedupe_from(player_history, 1, {}, <<>>)

\* for i in range(0, len(player_history), batch_size): execute_values(...);
\* total_processed += len(batch) (Optimized). No except clause inside the loop.
RECURSIVE optimized_batches(_, _, _, _)
optimized_batches(st, data, off, total_processed) ==
    IF off >= Len(data) THEN [st |-> st, exc |-> "none", total_processed |-> total_processed]
    ELSE LET then(batch, r) ==
                 IF r.exc = "none"
                 THEN optimized_batches(r.st, data, off + batch_size,
                                        total_processed + Len(batch))
                 ELSE [st |-> r.st, exc |-> r.exc, total_processed |-> total_processed]
             run(batch) == then(batch, execute_values(st, batch))
         IN run(batch_slice(data, off))

\* Mutant of should_vacuum: the threshold itself asks for the vacuum.
should_vacuum_at_threshold(cfg, total_processed) ==
    cfg.enable_vacuum_after_bulk /\ total_processed >= cfg.vacuum_threshold

\* should_vacuum = enable_vacuum_after_bulk and total_processed > vacuum_threshold
should_vacuum(cfg, total_processed) ==
    cfg.enable_vacuum_after_bulk /\ total_processed > cfg.vacuum_threshold

\* insert_player_history_optimized: returns should_vacuum; on any exception
\* conn.rollback() and re-raise. It never calls conn.commit().
insert_player_history_optimized(st, player_history, cfg) ==
    IF player_history = <<>> THEN [st |-> st, exc |-> "none", should_vacuum |-> FALSE]
    ELSE LET done(r) ==
                 IF r.exc = "none"
                 THEN [st |-> r.st, exc |-> "none",
                       should_vacuum |-> should_vacuum(cfg, r.total_processed)]
                 ELSE [st |-> rollback(r.st), exc |-> r.exc, should_vacuum |-> FALSE]
             run(dd) == done(optimized_batches([st EXCEPT !.deduped = dd], dd, 0, 0))
         IN run(deduplicated_history(player_history))

\* The exception classes of the model that derive from psycopg2.Error.
Psycopg2Errors == {"IntegrityError", "DataError", "OperationalError",
                   "ProgrammingError", "InternalError"}

\* Mutant of vacuum_except: the except clause re-raises after logging.
vacuum_except_reraise(exc) == exc

\* except psycopg2.Error in vacuum_analyze_table: logged as a warning, not
\* re-raised; anything else propagates.
vacuum_except(exc) == IF exc \in Psycopg2Errors THEN "none" ELSE exc

\* Mutant of vacuum_restore: autocommit is left as the function set it.
vacuum_restore_nothing(st, old_autocommit) ==
    Logged(st, "restore_autocommit", <<>>, "none")

\* The finally clause of vacuum_analyze_table: conn.autocommit =
\* old_autocommit; psycopg2 refuses it inside a transaction, which is logged.
vacuum_restore(st, old_autocommit) ==
    IF st.status # "idle"
    THEN Logged(st, "restore_autocommit", <<>>, "ProgrammingError")
    ELSE Logged([st EXCEPT !.autocommit = old_autocommit],
                "restore_autocommit", <<>>, "none")

\* The try block of vacuum_analyze_table: psycopg2 refuses to change
\* autocommit inside a transaction (ProgrammingError); outside a transaction
\* autocommit is set and VACUUM ANALYZE runs (fails says whether it raises).
vacuum_try(st, fails) ==
    IF st.status # "idle"
    THEN Exc(Logged(st, "set_autocommit", <<>>, "ProgrammingError"), "ProgrammingError")
    ELSE LET ran(a, exc) == Exc(Logged(a, "vacuum", <<>>, exc), exc)
         IN ran(Logged([st EXCEPT !.autocommit = TRUE], "set_autocommit", <<>>, "none"),
                IF fails THEN "OperationalError" ELSE "none")

\* vacuum_analyze_table: try, except psycopg2.Error, finally.
vacuum_analyze_table(st, fails) ==
    LET done(t) == Exc(vacuum_restore(t.st, st.autocommit), vacuum_except(t.exc))
    IN done(vacuum_try(st, fails))

\* Mutant of use_optimized: the threshold itself selects Optimized.
use_optimized_at_threshold(n, threshold) == n >= threshold

\* if len(player_history) > threshold: optimized, else: standard
use_optimized(n, threshold) == n > threshold

\* insert_player_history: nothing for an empty list; the strategy by the
\* threshold; then vacuum_analyze_table when the Optimized strategy asked for
\* it. An exception of the strategy propagates.
insert_player_history(st, player_history, cfg, vacuum_fails) ==
    IF player_history = <<>>
    THEN [st |-> st, exc |-> "none", strategy |-> "none", should_vacuum |-> FALSE]
    ELSE IF use_optimized(Len(player_history), cfg.bulk_insert_threshold)
    THEN LET vacuumed(v) ==
                 [st |-> v.st, exc |-> v.exc, strategy |-> "optimized",
                  should_vacuum |-> TRUE]
             done(r) ==
                 IF r.exc = "none" /\ r.should_vacuum
                 THEN vacuumed(vacuum_analyze_table(r.st, vacuum_fails))
                 ELSE [st |-> r.st, exc |-> r.exc, strategy |-> "optimized",
                       should_vacuum |-> r.should_vacuum]
         IN done(insert_player_history_optimized(st, player_history, cfg))
    ELSE LET done(r) ==
                 [st |-> r.st, exc |-> r.exc, strategy |-> "standard",
                  should_vacuum |-> FALSE]
         IN done(insert_player_history_standard(st, player_history))

\* ------------------------------------------------- DatabaseManager scope
NoWrites == [k \in NaturalKeys |-> 0]

\* The rows that the per-key account last of the most recent upserts stands
\* for.
RowsOf(last) ==
    {[player_id |-> k[1], gameweek_id |-> k[2], total_points |-> last[k]] :
        k \in {q \in NaturalKeys : last[q] # 0}}

ClosedConn == [open |-> FALSE, status |-> "idle", autocommit |-> FALSE,
               view |-> {}, lastv |-> NoWrites]

\* fn: the insert function called; before: the committed table when the call
\* started; again: the caller hands
\* over the record list of the previous scope once more; autocommit: the
\* connection's autocommit when the call started; leaves: the exception that
\* leaves the with statement.
NoCall == [input |-> <<>>, strategy |-> "none", exc |-> "none",
           should_vacuum |-> FALSE, log |-> <<>>, failed |-> <<>>, deduped |-> <<>>,
           before |-> {}, again |-> FALSE, autocommit |-> FALSE,
           leaves |-> "none", fn |-> "none"]

InitDb ==
    /\ config \in Configs
    /\ table = {}
    /\ lastc = NoWrites
    /\ conn = ClosedConn
    /\ scope = "outside"
    /\ call = NoCall
    /\ exit_log = <<>>

\* The storage side at rest, for the specifications that do not run it.
DbIdle ==
    /\ config = [bulk_insert_threshold |-> 1, enable_vacuum_after_bulk |-> FALSE,
                 vacuum_threshold |-> vacuum_threshold]
    /\ table = {}
    /\ lastc = NoWrites
    /\ conn = ClosedConn
    /\ scope = "idle"
    /\ call = NoCall
    /\ exit_log = <<>>

\* DatabaseManager.__enter__: get_connection() opens a connection (psycopg2:
\* autocommit off, no transaction yet). The caller comes with a new record
\* list or, after a scope in which it upserted one, with that list again.
EnterScope ==
    /\ scope \in {"outside", "closed"}
    /\ conn' = [open |-> TRUE, status |-> "idle", autocommit |-> FALSE,
                view |-> table, lastv |-> lastc]
    /\ \E again \in {FALSE, scope = "closed" /\ call.strategy # "none"} :
          call' = IF again THEN [NoCall EXCEPT !.input = call.input, !.again = TRUE]
                  ELSE NoCall
    /\ exit_log' = <<>>
    /\ scope' = "inside"
    /\ UNCHANGED <<config, table, lastc, fvars, sel, two, pipe, app, period, mgr>>

\* The state handed to the insert function, from the variables.
StateOf == [table |-> table, lastc |-> lastc, view |-> conn.view,
            lastv |-> conn.lastv, status |-> conn.status,
            autocommit |-> conn.autocommit, log |-> <<>>, failed |-> <<>>,
            deduped |-> <<>>]

\* The body of the scope: insert_player_history(conn, player_history).
Body ==
    /\ scope = "inside"
    /\ \E player_history \in (IF call.again THEN {call.input} ELSE RecordLists),
          vacuum_fails \in BOOLEAN :
        LET returns(r) ==
                /\ table' = r.st.table
                /\ lastc' = r.st.lastc
                /\ conn' = [open |-> TRUE, status |-> r.st.status,
                            autocommit |-> r.st.autocommit, view |-> r.st.view,
                            lastv |-> r.st.lastv]
                /\ call' = [input |-> player_history, strategy |-> r.strategy,
                            exc |-> r.exc, should_vacuum |-> r.should_vacuum,
                            log |-> r.st.log, failed |-> r.st.failed,
                            deduped |-> r.st.deduped, before |-> table,
                            again |-> call.again, autocommit |-> conn.autocommit,
                            leaves |-> "none", fn |-> "insert_player_history"]
        IN returns(insert_player_history(StateOf, player_history, config, vacuum_fails))
    /\ scope' = "body_done"
    /\ UNCHANGED <<config, exit_log, fvars, sel, two, pipe, app, period, mgr>>

\* Mutant of exit_calls: the connection is not closed after a rollback.
exit_calls_no_close_after_rollback(exc) ==
    IF exc # "none" THEN <<"rollback">> ELSE <<"close">>

\* What DatabaseManager.__exit__ calls on the connection: conn.rollback() when
\* the body raised, then close_connection(conn).
exit_calls(exc) ==
    IF exc # "none" THEN <<"rollback", "close">> ELSE <<"close">>

\* DatabaseManager.__exit__: the calls of exit_calls; closing discards what
\* the transaction has not committed. __exit__ returns None, so the body's
\* exception leaves the with statement.
ExitScope ==
    /\ scope = "body_done"
    /\ exit_log' = exit_calls(call.exc)
    /\ conn' = [conn EXCEPT !.open = \A e \in 1..Len(exit_log') : exit_log'[e] # "close",
                            !.status = "idle", !.view = table, !.lastv = lastc]
    /\ call' = [call EXCEPT !.leaves = call.exc]
    /\ scope' = "closed"
    /\ UNCHANGED <<config, table, lastc, fvars, sel, two, pipe, app, period, mgr>>

NextDb ==
    \/ EnterScope
    \/ Body
    \/ ExitScope

\* ------------------------------------------- insert functions, called alone
\* insert_events (and insert_gameweeks, insert_teams, insert_players,
\* insert_fixtures): `if not events: return`, then one executemany and
\* conn.commit(); on any exception conn.rollback() and re-raise.
insert_events(st, events) ==
    IF events = <<>> THEN Ok(st)
    ELSE LET done(r) == IF r.exc = "none" THEN Ok(commit(r.st))
                        ELSE Exc(rollback(r.st), r.exc)
         IN done(executemany(st, events))

\* insert_players_new (and insert_teams_new, insert_gameweeks_new,
\* insert_player_stats): `if not players: return`, then the batch loop with
\* the row-by-row retry and conn.commit(), the code of
\* insert_player_history_standard.
insert_players_new(st, players) ==
    IF players = <<>> THEN Ok(st)
    ELSE insert_player_history_standard(st, players)

InsertFunctions == {"insert_events", "insert_players_new", "insert_player_history",
                    "insert_player_history_standard",
                    "insert_player_history_optimized"}

\* The call fn(conn, records).
insert_function(fn, st, records, cfg, vacuum_fails) ==
    LET plain(r) == Exc(r.st, r.exc) IN
    IF fn = "insert_events" THEN insert_events(st, records)
    ELSE IF fn = "insert_players_new" THEN insert_players_new(st, records)
    ELSE IF fn = "insert_player_history"
    THEN plain(insert_player_history(st, records, cfg, vacuum_fails))
    ELSE IF fn = "insert_player_history_standard"
    THEN insert_player_history_standard(st, records)
    ELSE plain(insert_player_history_optimized(st, records, cfg))

\* An open connection with no transaction, and an empty table.
InitCall ==
    /\ config \in Configs
    /\ table = {}
    /\ lastc = NoWrites
    /\ conn = [open |-> TRUE, status |-> "idle", autocommit |-> FALSE,
               view |-> {}, lastv |-> NoWrites]
    /\ scope = "call"
    /\ call = NoCall
    /\ exit_log = <<>>

\* One insert function is called with a record list.
DirectCall ==
    /\ scope = "call"
    /\ \E fn \in InsertFunctions, records \in RecordLists, vacuum_fails \in BOOLEAN :
          LET returns(r) ==
                  /\ table' = r.st.table
                  /\ lastc' = r.st.lastc
                  /\ conn' = [open |-> TRUE, status |-> r.st.status,
                              autocommit |-> r.st.autocommit, view |-> r.st.view,
                              lastv |-> r.st.lastv]
                  /\ call' = [NoCall EXCEPT !.input = records, !.exc = r.exc,
                                            !.log = r.st.log, !.failed = r.st.failed,
                                            !.deduped = r.st.deduped, !.fn = fn]
          IN returns(insert_function(fn, StateOf, records, config, vacuum_fails))
    /\ scope' = "call_done"
    /\ UNCHANGED <<config, exit_log, fvars, sel, two, pipe, app, period, mgr>>

NextCall == DirectCall

\* ------------------------------------------------- vacuum_analyze_table
\* The connections vacuum_analyze_table can be given: idle with autocommit
\* on or off, or inside a transaction (live or failed) that sees its own rows.
InitVacuum ==
    /\ config \in Configs
    /\ lastc \in [NaturalKeys -> 0..MaxVal]
    /\ table = RowsOf(lastc)
    /\ \E status \in {"idle", "intrans", "inerror"}, autocommit \in BOOLEAN,
          lastv \in [NaturalKeys -> 0..MaxVal] :
          /\ status = "idle" => lastv = lastc
          /\ autocommit => status = "idle"
          /\ conn = [open |-> TRUE, status |-> status, autocommit |-> autocommit,
                     view |-> RowsOf(lastv), lastv |-> lastv]
    /\ scope = "maintenance"
    /\ call = NoCall
    /\ exit_log = <<>>

\* vacuum_analyze_table(conn, "player_history")
Vacuum ==
    /\ scope = "maintenance"
    /\ \E vacuum_fails \in BOOLEAN :
          LET returns(r) ==
                  /\ conn' = [conn EXCEPT !.status = r.st.status,
                                          !.autocommit = r.st.autocommit]
                  /\ call' = [NoCall EXCEPT !.exc = r.exc, !.log = r.st.log,
                                            !.before = table,
                                            !.autocommit = conn.autocommit]
          IN returns(vacuum_analyze_table(StateOf, vacuum_fails))
    /\ scope' = "maintenance_done"
    /\ UNCHANGED <<config, table, lastc, exit_log, fvars, sel, two, pipe, app, period, mgr>>

NextVacuum == Vacuum

\* ==================================== fetch_independent_endpoints_parallel
Endpoints == {"bootstrap", "fixtures"}

\* What the remote source does with the GET of /bootstrap-static/ or
\* /fixtures/: status is "ok" or the requests/JSON failure; body is what
\* response.json() decodes: "data" (a non-empty object or list), "empty"
\* ({} or []) or "None" (the JSON value null).
EndpointResponses ==
    [status : {"ok"}, body : {"data", "empty", "None"}]
    \cup [status : {"HTTPError", "ConnectionError", "Timeout", "RequestException",
                    "ValueError"},
          body : {"None"}]

\* fetch_bootstrap_data / fetch_fixtures_data: fetch_endpoint's data, or its
\* FPLAPIError re-raised after the log line.
fetch_top_level(resp) ==
    LET got(r) == IF r.exc = "none" THEN [exc |-> "none", data |-> r.data.body]
                  ELSE [exc |-> r.exc, data |-> "None"]
    IN got(fetch_endpoint(resp))

\* fetch_bootstrap / fetch_fixtures, the tasks given to the pool: the tuple
\* ('<name>_data', data), or ('<name>_error', str(e)) for any exception. key
\* is <<name, suffix>>; the message of the error is the failure it reports.
fetch_task(name, resp) ==
    LET wrapped(r) == IF r.exc = "none" THEN [key |-> <<name, "data">>, value |-> r.data]
                      ELSE [key |-> <<name, "error">>, value |-> resp.status]
    IN wrapped(fetch_top_level(resp))

\* results = {'bootstrap_data': None, 'fixtures_data': None, 'errors': []}
NoResults == [data |-> [e \in Endpoints |-> "None"], errors |-> <<>>]

\* Mutant of two_collect: a key that ends in _error is not recorded.
two_collect_drop_error(res, fut) ==
    IF fut.key[2] = "error" THEN res
    ELSE [res EXCEPT !.data[fut.key[1]] = fut.value]

\* The body of the as_completed loop for one future: key, value =
\* future.result(); an _error key appends "key: value" to results['errors'],
\* any other key stores the value under it.
two_collect(res, fut) ==
    IF fut.key[2] = "error"
    THEN [res EXCEPT !.errors = Append(@, fut)]
    ELSE [res EXCEPT !.data[fut.key[1]] = fut.value]

NoTask == [key |-> <<"none", "none">>, value |-> "None"]

TwoIdle == two = [pc |-> "idle", task |-> [e \in Endpoints |-> "new"],
                  fut |-> [e \in Endpoints |-> NoTask],
                  remote |-> [e \in Endpoints |-> "unset"],
                  results |-> NoResults]

InitTwo == two = [pc |-> "start", task |-> [e \in Endpoints |-> "new"],
                  fut |-> [e \in Endpoints |-> NoTask],
                  remote |-> [e \in Endpoints |-> "unset"],
                  results |-> NoResults]

TwoRunning == {e \in Endpoints : two.task[e] = "running"}

\* with ThreadPoolExecutor(max_workers=2): both tasks are submitted.
TwoSubmit ==
    /\ two.pc = "start"
    /\ two' = [two EXCEPT !.pc = "collect", !.task = [e \in Endpoints |-> "queued"],
                          !.results = NoResults]
    /\ UNCHANGED <<fvars, dvars, sel, pipe, app, period, mgr>>

\* A free worker of the pool of 2 takes a submitted task and issues its GET.
TwoStartTask(e) ==
    /\ two.task[e] = "queued"
    /\ worker_free(Cardinality(TwoRunning), 2)
    /\ two' = [two EXCEPT !.task[e] = "running"]
    /\ UNCHANGED <<fvars, dvars, sel, pipe, app, period, mgr>>

\* The request of a running task completes (or fails) and the task returns.
TwoFinishTask(e) ==
    /\ two.task[e] = "running"
    /\ \E resp \in EndpointResponses :
          two' = [two EXCEPT !.task[e] = "finished", !.fut[e] = fetch_task(e, resp),
                             !.remote[e] = resp]
    /\ UNCHANGED <<fvars, dvars, sel, pipe, app, period, mgr>>

\* as_completed yields a finished future.
TwoCollect(e) ==
    /\ two.pc = "collect"
    /\ two.task[e] = "finished"
    /\ two' = [two EXCEPT !.task[e] = "collected",
                          !.results = two_collect(@, two.fut[e])]
    /\ UNCHANGED <<fvars, dvars, sel, pipe, app, period, mgr>>

\* Both futures are collected: the executor shuts down and results is
\* returned.
TwoReturn ==
    /\ two.pc = "collect"
    /\ \A e \in Endpoints : two.task[e] = "collected"
    /\ two' = [two EXCEPT !.pc = "returned"]
    /\ UNCHANGED <<fvars, dvars, sel, pipe, app, period, mgr>>

NextTwo ==
    \/ TwoSubmit
    \/ \E e \in Endpoints : TwoStartTask(e)
    \/ \E e \in Endpoints : TwoFinishTask(e)
    \/ \E e \in Endpoints : TwoCollect(e)
    \/ TwoReturn

\* ============================================================ the pipeline
\* Step 4 of run_new_pipeline and of run_bootstrap_pipeline: the entity
\* groups in the order in which they are inserted.
NewGroups_teams_first == <<"teams", "players", "gameweeks", "player_stats", "player_history">>

NewGroups == <<"gameweeks", "teams", "players", "player_stats", "player_history">>

LegacyGroups == <<"teams", "players", "gameweeks", "fixtures">>

GroupsOf(mode) == IF mode = "new" THEN NewGroups ELSE LegacyGroups

GroupNames == {"gameweeks", "teams", "players", "player_stats", "player_history",
               "fixtures"}

\* How an insert function ends: "commit" (its rows are written and
\* conn.commit() ran), "raise" (conn.rollback(), then the exception
\* propagates) or, for insert_player_history on its Optimized branch,
\* "return" (rows written, no commit).
Outcomes(g) ==
    IF g = "player_history" THEN {"commit", "return", "raise"} ELSE {"commit", "raise"}

\* Mutant of insert_group: the insert function leaves the commit to the end
\* of the scope.
insert_group_no_commit(db, g, outcome) ==
    IF outcome = "raise" THEN [db EXCEPT !.pending = {}, !.exc = "error"]
    ELSE [db EXCEPT !.pending = @ \cup {g}]

\* An insert function on the scope's connection: its rows join the open
\* transaction; commit makes every pending row durable, rollback drops them.
\* committed is the account of the groups whose insert function committed.
insert_group(db, g, outcome) ==
    IF outcome = "raise" THEN [db EXCEPT !.pending = {}, !.exc = "error"]
    ELSE IF outcome = "return" THEN [db EXCEPT !.pending = @ \cup {g}]
    ELSE [db EXCEPT !.stored = @ \cup db.pending \cup {g}, !.pending = {},
                    !.committed = @ \cup {g}]

\* DatabaseManager.__exit__ on the pipeline's connection: rollback when an
\* exception leaves the block, then close; what is not committed is lost.
exit_group(db) == [db EXCEPT !.pending = {}, !.open = FALSE]

NoDb == [open |-> FALSE, pending |-> {}, stored |-> {}, committed |-> {},
         exc |-> "none"]

NoPipe == [pc |-> "idle", mode |-> "new", present |-> {}, k |-> 1,
           scopes |-> 0, scope_of |-> [g \in GroupNames |-> 0],
           db |-> NoDb, ret |-> "unset"]

PipeIdle == pipe = NoPipe

\* present: the groups whose parsed list is not empty.
InitPipe ==
    \E mode \in {"new", "legacy"} :
    \E present \in SUBSET {GroupsOf(mode)[j] : j \in 1..Len(GroupsOf(mode))} :
        pipe = [pc |-> "schema", mode |-> mode, present |-> present, k |-> 1,
                scopes |-> 0, scope_of |-> [g \in GroupNames |-> 0],
                db |-> NoDb, ret |-> "unset"]

PipeGroups == GroupsOf(pipe.mode)

\* "Ensure schema exists": run_new_pipeline runs execute_schema in a scope of
\* its own; run_bootstrap_pipeline opens the one scope in which the groups
\* follow. A failure of execute_schema is caught and logged.
PipeSchema ==
    /\ pipe.pc = "schema"
    /\ pipe' = [pipe EXCEPT !.pc = "group", !.scopes = @ + 1,
                            !.db.open = (pipe.mode = "legacy")]
    /\ UNCHANGED <<fvars, dvars, sel, two, app, period, mgr>>

\* `if <group>:` - an empty group is passed over; in run_new_pipeline a
\* group that is present gets a new scope.
PipeGroup ==
    /\ pipe.pc = "group"
    /\ pipe.k <= Len(PipeGroups)
    /\ pipe' = IF PipeGroups[pipe.k] \notin pipe.present
               THEN [pipe EXCEPT !.k = @ + 1]
               ELSE IF pipe.mode = "new"
               THEN [pipe EXCEPT !.pc = "insert", !.scopes = @ + 1, !.db.open = TRUE]
               ELSE [pipe EXCEPT !.pc = "insert"]
    /\ UNCHANGED <<fvars, dvars, sel, two, app, period, mgr>>

\* The group's insert function runs on the scope's connection. In
\* run_new_pipeline the with block ends after it; in run_bootstrap_pipeline
\* the next group follows in the same block unless an exception leaves it.
PipeInsert ==
    /\ pipe.pc = "insert"
    /\ \E outcome \in Outcomes(PipeGroups[pipe.k]) :
          LET after(db) ==
                  pipe' = [pipe EXCEPT
                              !.db = db,
                              !.scope_of[PipeGroups[pipe.k]] = pipe.scopes,
                              !.pc = IF pipe.mode = "new" \/ db.exc # "none"
                                     THEN "exit" ELSE "group",
                              !.k = IF pipe.mode = "new" \/ db.exc # "none"
                                    THEN @ ELSE @ + 1]
          IN after(insert_group(pipe.db, PipeGroups[pipe.k], outcome))
    /\ UNCHANGED <<fvars, dvars, sel, two, app, period, mgr>>

\* The end of run_bootstrap_pipeline's with block.
PipeEndBlock ==
    /\ pipe.pc = "group"
    /\ pipe.k > Len(PipeGroups)
    /\ pipe.mode = "legacy"
    /\ pipe' = [pipe EXCEPT !.pc = "exit"]
    /\ UNCHANGED <<fvars, dvars, sel, two, app, period, mgr>>

\* DatabaseManager.__exit__; an exception goes on to the pipeline's
\* `except Exception`, which returns False.
PipeExit ==
    /\ pipe.pc = "exit"
    /\ pipe' = [pipe EXCEPT
                   !.db = exit_group(@),
                   !.pc = IF pipe.db.exc # "none" THEN "failed"
                          ELSE IF pipe.mode = "legacy" THEN "done" ELSE "group",
                   !.k = IF pipe.db.exc = "none" /\ pipe.mode = "new" THEN @ + 1 ELSE @,
                   !.ret = IF pipe.db.exc # "none" THEN "False"
                           ELSE IF pipe.mode = "legacy" THEN "True" ELSE @]
    /\ UNCHANGED <<fvars, dvars, sel, two, app, period, mgr>>

\* run_new_pipeline after its last group: return True.
PipeReturn ==
    /\ pipe.pc = "group"
    /\ pipe.k > Len(PipeGroups)
    /\ pipe.mode = "new"
    /\ pipe' = [pipe EXCEPT !.pc = "done", !.ret = "True"]
    /\ UNCHANGED <<fvars, dvars, sel, two, app, period, mgr>>

NextPipe ==
    \/ PipeSchema
    \/ PipeGroup
    \/ PipeInsert
    \/ PipeEndBlock
    \/ PipeExit
    \/ PipeReturn

\* ------------------------------------- player history, fetch to storage
\* parse_player_history(history_data, player_id): one PlayerHistory per entry,
\* player_id from the argument, gameweek_id from the entry's round. The
\* entries come from the API; the database accepts their values.
parse_player_history(data, player_id) ==
    [j \in 1..Len(data) |->
        [player_id |-> player_id, gameweek_id |-> data[j], total_points |-> 1,
         flaw |-> "none"]]

RECURSIVE parsed_history(_, _)
\* `for player_id, history_data in history_results: if history_data:
\* all_player_history.extend(parse_player_history(history_data, player_id))`,
\* from result j on. None and [] are both falsy.
parsed_history(history_results, j) ==
    IF j > Len(history_results) THEN <<>>
    ELSE (IF history_results[j].isNone \/ history_results[j].history = <<>>
          THEN <<>>
          ELSE parse_player_history(history_results[j].history,
                                    history_results[j].player_id))
         \o parsed_history(history_results, j + 1)

\* run_new_pipeline with player history selected: players is not empty, so
\* the key list is not; the database holds no history yet.
InitEndToEnd ==
    /\ InitFetch
    /\ player_ids # <<>>
    /\ config \in Configs
    /\ table = {}
    /\ lastc = NoWrites
    /\ conn = ClosedConn
    /\ scope = "fetching"
    /\ call = NoCall
    /\ exit_log = <<>>

\* The rest of run_new_pipeline once fetch_player_history_batch has returned:
\* the results are parsed and, `if player_history:`, inserted in a scope of
\* their own: __enter__, insert_player_history(conn, player_history),
\* __exit__.
InsertPlayerHistory ==
    /\ fpc = "returned"
    /\ scope = "fetching"
    /\ \E vacuum_fails \in BOOLEAN :
          LET player_history == parsed_history(results, 1)
              opened == [table |-> table, lastc |-> lastc, view |-> table,
                         lastv |-> lastc, status |-> "idle", autocommit |-> FALSE,
                         log |-> <<>>, failed |-> <<>>, deduped |-> <<>>]
              scoped(r) ==
                  /\ table' = r.st.table
                  /\ lastc' = r.st.lastc
                  /\ exit_log' = exit_calls(r.exc)
                  /\ conn' = [open |-> FALSE, status |-> "idle",
                              autocommit |-> r.st.autocommit, view |-> r.st.table,
                              lastv |-> r.st.lastc]
                  /\ call' = [input |-> player_history, strategy |-> r.strategy,
                              exc |-> r.exc, should_vacuum |-> r.should_vacuum,
                              log |-> r.st.log, failed |-> r.st.failed,
                              deduped |-> r.st.deduped, before |-> table,
                              again |-> FALSE, autocommit |-> FALSE,
                              leaves |-> r.exc, fn |-> "insert_player_history"]
                  /\ scope' = "closed"
          IN IF player_history = <<>>
             THEN /\ scope' = "skipped"
                  /\ UNCHANGED <<table, lastc, exit_log, conn, call>>
             ELSE scoped(insert_player_history(opened, player_history, config,
                                               vacuum_fails))
    /\ UNCHANGED <<config, fvars, sel, two, pipe, app, period, mgr>>

NextEndToEnd ==
    \/ SubmitBatch
    \/ \E p \in Positions : StartTask(p)
    \/ \E p \in Positions : FinishTask(p)
    \/ \E p \in Positions : Collect(p)
    \/ EndBatch
    \/ FinishFetch
    \/ InsertPlayerHistory

\* ------------------------------------------ main and the pipeline's steps
\* The data types main can select (--events, --players, ...), per schema.
Selectable(mode) ==
    IF mode = "new" THEN {"events", "players", "player_stats", "player_history"}
    ELSE {"teams", "players", "gameweeks", "fixtures"}

\* What the two top-level endpoints answer in a run: a payload, an empty
\* payload, JSON null, or a timeout.
RunResponses == {r \in EndpointResponses : r.status \in {"ok", "Timeout"}}

\* The result map of fetch_independent_endpoints_parallel for the answers rb
\* and rf of /bootstrap-static/ and /fixtures/.
fetch_results(rb, rf) ==
    two_collect(two_collect(NoResults, fetch_task("bootstrap", rb)),
                fetch_task("fixtures", rf))

\* The entity groups step 3 parses for a selection. run_new_pipeline parses
\* teams and players for include_players; run_bootstrap_pipeline parses
\* fixtures only when the fixtures payload was fetched and is not empty.
parsed_groups(mode, include, fetched_results) ==
    IF mode = "new"
    THEN (IF "events" \in include THEN {"gameweeks"} ELSE {})
         \cup (IF "players" \in include THEN {"teams", "players"} ELSE {})
         \cup (IF "player_stats" \in include THEN {"player_stats"} ELSE {})
    ELSE (include \ {"fixtures"})
         \cup (IF "fixtures" \in include /\ fetched_results.data["fixtures"] = "data"
               THEN {"fixtures"} ELSE {})

\* What becomes of one player's detail resource: "ok" (fetched, parsed into
\* records), "empty" (fetched, no history entries), "failed" (the fetch gave
\* (id, None)), "invalid" (fetched, but an entry does not validate as a
\* PlayerHistory).
DetailOutcomes == {"ok", "empty", "failed", "invalid"}

\* Mutant of skip_database: the dry_run flag is ignored.
skip_database_never(dry_run) == FALSE

\* `if dry_run:` before step 4.
skip_database(dry_run) == dry_run

NoRun == [pc |-> "idle", mode |-> "new", dry_run |-> FALSE, include |-> {},
          results |-> NoResults, remote |-> [e \in Endpoints |-> "unset"],
          hist |-> [p \in PlayerIds |-> "unset"], batch |-> {},
          why |-> "unset", ret |-> "unset", status |-> "unset"]

RunIdle == app = NoRun

\* main calls the pipeline of the chosen schema with the selection made on
\* the command line, which is never empty.
InitRun ==
    /\ \E mode \in {"new", "legacy"}, dry_run \in BOOLEAN :
       \E include \in (SUBSET Selectable(mode)) \ {{}} :
          app = [NoRun EXCEPT !.pc = "fetch", !.mode = mode, !.dry_run = dry_run,
                              !.include = include]
    /\ pipe = NoPipe

\* Step 2: fetch_independent_endpoints_parallel(); `if not bootstrap_data:
\* return False`.
RunFetch ==
    /\ app.pc = "fetch"
    /\ \E rb \in RunResponses, rf \in RunResponses :
          LET fetched(res) ==
                  app' = IF res.data["bootstrap"] # "data"
                         THEN [app EXCEPT !.results = res,
                                          !.remote = [e \in Endpoints |->
                                              IF e = "bootstrap" THEN rb ELSE rf],
                                          !.pc = "returned", !.ret = "False",
                                          !.why = "no_bootstrap"]
                         ELSE [app EXCEPT !.results = res,
                                          !.remote = [e \in Endpoints |->
                                              IF e = "bootstrap" THEN rb ELSE rf],
                                          !.pc = "parse"]
          IN fetched(fetch_results(rb, rf))
    /\ UNCHANGED <<fvars, dvars, sel, two, pipe, period, mgr>>

\* Step 3: the selected groups are parsed from the bootstrap payload; a
\* payload that does not validate raises, and the pipeline's `except
\* Exception` returns False. present collects the groups whose list is not
\* empty.
RunParse ==
    /\ app.pc = "parse"
    /\ \E raises \in BOOLEAN :
       \E present \in SUBSET parsed_groups(app.mode, app.include, app.results) :
          IF raises
          THEN /\ present = {}
               /\ app' = [app EXCEPT !.pc = "returned", !.ret = "False",
                                     !.why = "parse_error"]
               /\ pipe' = pipe
          ELSE /\ app' = [app EXCEPT !.pc =
                             IF app.mode = "new" /\ "player_history" \in app.include
                                /\ "players" \in present
                             THEN "history" ELSE "dry_run"]
               /\ pipe' = [pipe EXCEPT !.mode = app.mode, !.present = present]
    /\ UNCHANGED <<fvars, dvars, sel, two, period, mgr>>

\* `if include_player_history and players:` - fetch_player_history_batch over
\* the players, then parse_player_history on every payload that is not empty.
\* parse_player_history re-raises what an entry raises, and nothing around
\* the loop catches it before the pipeline's `except Exception`.
RunHistory ==
    /\ app.pc = "history"
    /\ \E hist \in [PlayerIds -> DetailOutcomes] :
          IF \E p \in PlayerIds : hist[p] = "invalid"
          THEN /\ app' = [app EXCEPT !.hist = hist, !.pc = "returned",
                                     !.ret = "False", !.why = "parse_error"]
               /\ pipe' = pipe
          ELSE /\ app' = [app EXCEPT !.hist = hist, !.pc = "dry_run",
                                     !.batch = {p \in PlayerIds : hist[p] = "ok"}]
               /\ pipe' = [pipe EXCEPT !.present =
                              IF \E p \in PlayerIds : hist[p] = "ok"
                              THEN @ \cup {"player_history"} ELSE @]
    /\ UNCHANGED <<fvars, dvars, sel, two, period, mgr>>

\* `if dry_run:` the would-be inserts are logged and True is returned;
\* otherwise step 4 follows.
RunDryRun ==
    /\ app.pc = "dry_run"
    /\ IF skip_database(app.dry_run)
       THEN /\ app' = [app EXCEPT !.pc = "returned", !.ret = "True",
                                  !.why = "dry_run"]
            /\ pipe' = pipe
       ELSE /\ app' = [app EXCEPT !.pc = "database"]
            /\ pipe' = [pipe EXCEPT !.pc = "schema"]
    /\ UNCHANGED <<fvars, dvars, sel, two, period, mgr>>

\* main: sys.exit(0) if the pipeline returned True, else sys.exit(1).
RunExit ==
    /\ \/ app.pc = "returned"
       \/ app.pc = "database" /\ pipe.pc \in {"done", "failed"}
    /\ app' = [app EXCEPT
                  !.pc = "exited",
                  !.ret = IF app.pc = "returned" THEN @ ELSE pipe.ret,
                  !.why = IF app.pc = "returned" THEN @
                          ELSE IF pipe.ret = "True" THEN "completed"
                          ELSE "insert_error",
                  !.status = IF (IF app.pc = "returned" THEN app.ret ELSE pipe.ret)
                                  = "True"
                             THEN 0 ELSE 1]
    /\ UNCHANGED <<fvars, dvars, sel, two, pipe, period, mgr>>

NextRun ==
    \/ RunFetch
    \/ RunParse
    \/ RunHistory
    \/ RunDryRun
    \/ PipeSchema
    \/ PipeGroup
    \/ PipeInsert
    \/ PipeEndBlock
    \/ PipeExit
    \/ PipeReturn
    \/ RunExit

\* ----------------------------- run_new_pipeline, its fetches task by task
\* A caller that goes on while the callee is still collecting.
call_returned_or_collecting(pc) == pc \in {"collect", "returned"}

\* `fetch_results = fetch_independent_endpoints_parallel()` and
\* `history_results = fetch_player_history_batch(...)` are plain calls: the
\* pipeline goes on when the callee has returned.
call_returned(pc) == pc = "returned"

\* run_new_pipeline with every data type selected and no dry run.
InitOrder ==
    /\ app = [NoRun EXCEPT !.pc = "fetch", !.mode = "new", !.dry_run = FALSE,
                           !.include = Selectable("new")]
    /\ pipe = NoPipe
    /\ TwoIdle
    /\ FetchIdle

\* Step 2: fetch_independent_endpoints_parallel() is called.
OrderFetch ==
    /\ app.pc = "fetch"
    /\ app' = [app EXCEPT !.pc = "fetching"]
    /\ two' = [two EXCEPT !.pc = "start"]
    /\ UNCHANGED <<fvars, dvars, sel, pipe, period, mgr>>

\* The call has returned: `if not bootstrap_data: return False`.
OrderFetched ==
    /\ app.pc = "fetching"
    /\ call_returned(two.pc)
    /\ app' = IF two.results.data["bootstrap"] # "data"
              THEN [app EXCEPT !.results = two.results, !.remote = two.remote,
                               !.pc = "returned", !.ret = "False",
                               !.why = "no_bootstrap"]
              ELSE [app EXCEPT !.results = two.results, !.remote = two.remote,
                               !.pc = "parse"]
    /\ UNCHANGED <<fvars, dvars, sel, two, pipe, period, mgr>>

\* `if include_player_history and players:` fetch_player_history_batch is
\* called with the ids of the parsed players, one key per player.
OrderHistoryFetch ==
    /\ app.pc = "history"
    /\ app' = [app EXCEPT !.pc = "fetching_history"]
    /\ max_workers' \in 1..MaxWorkers
    /\ player_ids' = RoundRobin(MaxPlayer)
    /\ fpc' = "loop"
    /\ i' = 0
    /\ fstate' = [p \in 1..MaxPlayer |-> "new"]
    /\ futures' = [p \in 1..MaxPlayer |-> NoFuture]
    /\ remote' = [p \in 1..MaxPlayer |-> "unset"]
    /\ served' = [p \in 1..MaxPlayer |-> <<>>]
    /\ batch_results' = <<>>
    /\ results' = <<>>
    /\ requests' = [p \in 1..MaxPlayer |-> 0]
    /\ sleeps' = 0
    /\ UNCHANGED <<dvars, sel, two, pipe, period, mgr>>

\* What the parse loop makes of the result of player p: None is passed over
\* as "failed", [] as "empty", and a payload is parsed into records or has an
\* entry that does not validate.
detail_outcomes(rs, p) ==
    IF \E j \in 1..Len(rs) : rs[j].player_id = p /\ ~rs[j].isNone /\ rs[j].history # <<>>
    THEN {"ok", "invalid"}
    ELSE IF \E j \in 1..Len(rs) : rs[j].player_id = p /\ ~rs[j].isNone
    THEN {"empty"}
    ELSE {"failed"}

\* The call has returned: the parse loop over history_results, as in
\* RunHistory.
OrderHistoryFetched ==
    /\ app.pc = "fetching_history"
    /\ call_returned(fpc)
    /\ \E hist \in [PlayerIds -> DetailOutcomes] :
          /\ \A p \in PlayerIds : hist[p] \in detail_outcomes(results, p)
          /\ IF \E p \in PlayerIds : hist[p] = "invalid"
             THEN /\ app' = [app EXCEPT !.hist = hist, !.pc = "returned",
                                        !.ret = "False", !.why = "parse_error"]
                  /\ pipe' = pipe
             ELSE /\ app' = [app EXCEPT !.hist = hist, !.pc = "dry_run",
                                        !.batch = {p \in PlayerIds : hist[p] = "ok"}]
                  /\ pipe' = [pipe EXCEPT !.present =
                                 IF \E p \in PlayerIds : hist[p] = "ok"
                                 THEN @ \cup {"player_history"} ELSE @]
    /\ UNCHANGED <<fvars, dvars, sel, two, period, mgr>>

NextOrder ==
    \/ OrderFetch
    \/ TwoSubmit
    \/ \E e \in Endpoints : TwoStartTask(e)
    \/ \E e \in Endpoints : TwoFinishTask(e)
    \/ \E e \in Endpoints : TwoCollect(e)
    \/ TwoReturn
    \/ OrderFetched
    \/ RunParse
    \/ OrderHistoryFetch
    \/ SubmitBatch
    \/ \E p \in Positions : StartTask(p)
    \/ \E p \in Positions : FinishTask(p)
    \/ \E p \in Positions : Collect(p)
    \/ EndBatch
    \/ FinishFetch
    \/ OrderHistoryFetched
    \/ RunDryRun
    \/ PipeSchema
    \/ PipeGroup
    \/ PipeInsert
    \/ PipeExit
    \/ PipeReturn
    \/ RunExit

\* ====================================================== strategy selection
\* Largest record count tried in the selection.
MaxCount == 101
\* bulk_insert_threshold when BULK_INSERT_THRESHOLD is not set.
default_bulk_insert_threshold == 100
\* vacuum_threshold when VACUUM_THRESHOLD is not set.
default_vacuum_threshold == 1000

SelIdle == sel = [count |-> 0, threshold |-> 1, strategy |-> "idle"]

InitSelect ==
    sel \in [count : 0..MaxCount,
             threshold : {1, MaxLen, default_bulk_insert_threshold},
             strategy : {"unset"}]

\* The branch insert_player_history takes for len(player_history) = count.
Select ==
    /\ sel.strategy = "unset"
    /\ sel' = [sel EXCEPT !.strategy =
                  IF sel.count = 0 THEN "none"
                  ELSE IF use_optimized(sel.count, sel.threshold) THEN "optimized"
                  ELSE "standard"]
    /\ UNCHANGED <<fvars, dvars, two, pipe, app, period, mgr>>

NextSelect == Select

\* ======================================================= current gameweek
\* Longest 'events' list of a bootstrap payload, and the largest event id.
MaxEvents == 3
MaxEventId == 3

\* An event of the payload: its 'id' (has_id: the key is there) and its
\* 'is_current' entry, which may be missing.
EventFlags == {"absent", "false", "true"}

PayloadEvents == [id : 1..MaxEventId, has_id : BOOLEAN, is_current : EventFlags]

\* event.get('is_current', False)
is_current(event) == event.is_current = "true"

NoneId == [isNone |-> TRUE, raised |-> FALSE, id |-> 1]

\* The loop of fetch_current_gameweek_id from event j on: the id of the first
\* event flagged current (event['id'] raises KeyError without the key), None
\* after the last event.
RECURSIVE current_from(_, _)
current_from(events, j) ==
    IF j > Len(events) THEN NoneId
    ELSE IF is_current(events[j])
         THEN IF events[j].has_id
              THEN [isNone |-> FALSE, raised |-> FALSE, id |-> events[j].id]
              ELSE [isNone |-> TRUE, raised |-> TRUE, id |-> 1]
         ELSE current_from(events, j + 1)

\* The id of the last event flagged current.
RECURSIVE last_current_from(_, _)
last_current_from(events, j) ==
    IF j < 1 THEN NoneId
    ELSE IF is_current(events[j])
         THEN IF events[j].has_id
              THEN [isNone |-> FALSE, raised |-> FALSE, id |-> events[j].id]
              ELSE [isNone |-> TRUE, raised |-> TRUE, id |-> 1]
         ELSE last_current_from(events, j - 1)

fetch_current_gameweek_id_last(has_events, events) ==
    IF ~has_events THEN NoneId ELSE last_current_from(events, Len(events))

\* fetch_current_gameweek_id(bootstrap_data): None when the payload has no
\* 'events' key.
fetch_current_gameweek_id(has_events, events) ==
    IF ~has_events THEN NoneId ELSE current_from(events, 1)

\* if current_gameweek_id is None: current_gameweek_id = 1
default_gameweek_id(found) == IF found.isNone THEN 1 ELSE found.id

NoPeriod == [pc |-> "idle", has_events |-> FALSE, events |-> <<>>,
             current_gameweek_id |-> 1, stats_gameweek_id |-> 1]

\* The period resolution at rest, for the specifications that do not run it.
PeriodIdle == period = NoPeriod

\* run_new_pipeline holds a bootstrap payload: with or without 'events'.
InitPeriod ==
    \E has_events \in BOOLEAN :
    \E events \in (IF has_events THEN BoundedSeq(PayloadEvents, MaxEvents) ELSE {<<>>}) :
        period = [NoPeriod EXCEPT !.pc = "fetched", !.has_events = has_events,
                                  !.events = events]

\* The current gameweek is looked up and defaulted; an exception leaves the
\* try block and the pipeline returns False.
ResolvePeriod ==
    /\ period.pc = "fetched"
    /\ LET then(found) ==
               IF found.raised THEN [period EXCEPT !.pc = "failed"]
               ELSE [period EXCEPT !.pc = "resolved",
                                   !.current_gameweek_id = default_gameweek_id(found)]
       IN period' = then(fetch_current_gameweek_id(period.has_events, period.events))
    /\ UNCHANGED <<fvars, dvars, sel, two, pipe, app, mgr>>

\* parse_player_stats(bootstrap_data, current_gameweek_id): every PlayerStats
\* record carries gameweek_id = current_gameweek_id.
ParsePlayerStats ==
    /\ period.pc = "resolved"
    /\ period' = [period EXCEPT !.pc = "parsed",
                                !.stats_gameweek_id = period.current_gameweek_id]
    /\ UNCHANGED <<fvars, dvars, sel, two, pipe, app, mgr>>

NextPeriod == ResolvePeriod \/ ParsePlayerStats

\* ================================================= DatabaseManager.__exit__
\* What the body of a scope raises, and what conn.rollback() and conn.close()
\* raise on this connection ("none": the call succeeds; the others: the
\* connection was lost or is unusable).
BodyExceptions == {"none", "IntegrityError", "DataError", "OperationalError",
                   "ValueError"}

ConnFailures == {"none", "OperationalError", "InterfaceError"}

\* close_connection(conn): conn.close() inside try/except Exception, the
\* failure is logged and not raised. closed: the close went through.
close_connection(close_exc) ==
    [calls |-> <<"close">>, closed |-> close_exc = "none", exc |-> "none"]

\* DatabaseManager.__exit__(exc_type, ...): when the body raised,
\* self.conn.rollback() - outside any try, so what it raises leaves __exit__
\* at once - and then close_connection(self.conn). It returns None: the
\* body's exception goes on. leaves is the exception that leaves the with
\* statement.
manager_exit(body_exc, rollback_exc, close_exc) ==
    LET closing(c, before, leaves) ==
            [calls |-> before \o c.calls, closed |-> c.closed, leaves |-> leaves]
    IN IF body_exc # "none" /\ rollback_exc # "none"
       THEN [calls |-> <<"rollback">>, closed |-> FALSE, leaves |-> rollback_exc]
       ELSE IF body_exc # "none"
       THEN closing(close_connection(close_exc), <<"rollback">>, body_exc)
       ELSE closing(close_connection(close_exc), <<>>, "none")

NoMgr == [pc |-> "idle", rollback_exc |-> "none", close_exc |-> "none",
          body_exc |-> "none", open |-> FALSE, calls |-> <<>>, leaves |-> "none"]

\* The scope exit at rest, for the specifications that do not run it.
MgrIdle == mgr = NoMgr

\* A DatabaseManager is built; the connection it will get may fail later.
InitMgr ==
    \E rollback_exc \in ConnFailures, close_exc \in ConnFailures :
        mgr = [NoMgr EXCEPT !.pc = "outside", !.rollback_exc = rollback_exc,
                            !.close_exc = close_exc]

\* __enter__: self.conn = get_connection()
MgrEnter ==
    /\ mgr.pc = "outside"
    /\ mgr' = [mgr EXCEPT !.pc = "inside", !.open = TRUE]
    /\ UNCHANGED <<fvars, dvars, sel, two, pipe, app, period>>

\* The body of the with statement returns or raises.
MgrBody ==
    /\ mgr.pc = "inside"
    /\ \E body_exc \in BodyExceptions :
          mgr' = [mgr EXCEPT !.pc = "body_done", !.body_exc = body_exc]
    /\ UNCHANGED <<fvars, dvars, sel, two, pipe, app, period>>

\* __exit__ runs and the with statement is left.
MgrExit ==
    /\ mgr.pc = "body_done"
    /\ LET left(x) == [mgr EXCEPT !.pc = "left", !.calls = x.calls,
                                  !.open = ~x.closed, !.leaves = x.leaves]
       IN mgr' = left(manager_exit(mgr.body_exc, mgr.rollback_exc, mgr.close_exc))
    /\ UNCHANGED <<fvars, dvars, sel, two, pipe, app, period>>

NextMgr == MgrEnter \/ MgrBody \/ MgrExit

\* ========================================================== specifications
\* A call of fetch_player_history_batch; nothing else runs.
InitFetchOnly == InitFetch /\ DbIdle /\ SelIdle /\ TwoIdle /\ PipeIdle /\ RunIdle
    /\ PeriodIdle /\ MgrIdle

SpecFetch == InitFetchOnly /\ [][NextFetch]_vars

\* The same call when everything that can run does run: the calling thread
\* goes on (submit, collect, extend and sleep, return), the pool gives a
\* queued task a free worker, and every request completes or times out
\* (requests.get(url, timeout=30)).
FetchFairness ==
    /\ WF_vars(SubmitBatch \/ EndBatch \/ FinishFetch)
    /\ WF_vars(\E p \in Positions : StartTask(p))
    /\ WF_vars(\E p \in Positions : FinishTask(p))
    /\ WF_vars(\E p \in Positions : Collect(p))

SpecFetchLive == InitFetchOnly /\ [][NextFetch]_vars /\ FetchFairness

\* DatabaseManager scopes around insert_player_history; nothing else runs.
InitDbOnly == InitDb /\ FetchIdle /\ SelIdle /\ TwoIdle /\ PipeIdle /\ RunIdle
    /\ PeriodIdle /\ MgrIdle

SpecDb == InitDbOnly /\ [][NextDb]_vars

\* A call of vacuum_analyze_table; nothing else runs.
InitVacuumOnly == InitVacuum /\ FetchIdle /\ SelIdle /\ TwoIdle /\ PipeIdle /\ RunIdle
    /\ PeriodIdle /\ MgrIdle

SpecVacuum == InitVacuumOnly /\ [][NextVacuum]_vars

\* One strategy selection; nothing else runs.
InitSelectOnly == InitSelect /\ FetchIdle /\ DbIdle /\ TwoIdle /\ PipeIdle /\ RunIdle
    /\ PeriodIdle /\ MgrIdle

SpecSelect == InitSelectOnly /\ [][NextSelect]_vars

\* A call of fetch_independent_endpoints_parallel; nothing else runs.
InitTwoOnly == InitTwo /\ FetchIdle /\ DbIdle /\ SelIdle /\ PipeIdle /\ RunIdle
    /\ PeriodIdle /\ MgrIdle

SpecTwo == InitTwoOnly /\ [][NextTwo]_vars

\* The database step of one pipeline run, in either mode; nothing else runs.
InitPipeOnly == InitPipe /\ FetchIdle /\ DbIdle /\ SelIdle /\ TwoIdle /\ RunIdle
    /\ PeriodIdle /\ MgrIdle

SpecPipe == InitPipeOnly /\ [][NextPipe]_vars

\* Player history from the concurrent fetch to storage; nothing else runs.
InitEndToEndOnly == InitEndToEnd /\ SelIdle /\ TwoIdle /\ PipeIdle /\ RunIdle
    /\ PeriodIdle /\ MgrIdle

SpecEndToEnd == InitEndToEndOnly /\ [][NextEndToEnd]_vars

\* The current-gameweek resolution of run_new_pipeline; nothing else runs.
InitPeriodOnly == InitPeriod /\ FetchIdle /\ DbIdle /\ SelIdle /\ TwoIdle
    /\ PipeIdle /\ RunIdle /\ MgrIdle

SpecPeriod == InitPeriodOnly /\ [][NextPeriod]_vars

\* run_new_pipeline with its fetches run task by task, up to the exit.
InitOrderOnly == InitOrder /\ DbIdle /\ SelIdle /\ PeriodIdle /\ MgrIdle

SpecOrder == InitOrderOnly /\ [][NextOrder]_vars

\* One DatabaseManager scope on a connection that may fail; nothing else runs.
InitMgrOnly == InitMgr /\ FetchIdle /\ DbIdle /\ SelIdle /\ TwoIdle /\ PipeIdle
    /\ RunIdle /\ PeriodIdle

SpecMgr == InitMgrOnly /\ [][NextMgr]_vars

\* One insert function called on an open connection; nothing else runs.
InitCallOnly == InitCall /\ FetchIdle /\ SelIdle /\ TwoIdle /\ PipeIdle /\ RunIdle
    /\ PeriodIdle /\ MgrIdle

SpecCall == InitCallOnly /\ [][NextCall]_vars

\* main running one pipeline, from the fetch to the exit status.
InitRunOnly == InitRun /\ FetchIdle /\ DbIdle /\ SelIdle /\ TwoIdle
    /\ PeriodIdle /\ MgrIdle

SpecRun == InitRunOnly /\ [][NextRun]_vars

\* ================================================================== claims
\* ---------------------------------------------- fetch_player_history_batch
\* How often tuple t occurs in the result list rs.
Occurrences(rs, t) == Cardinality({j \in 1..Len(rs) : rs[j] = t})

\* The tuple position p of the key list is owed: its own key, None when the
\* remote failed, else the history the remote served.
Expected(p) == [player_id |-> player_ids[p], isNone |-> remote[p] = "failed",
                history |-> served[p]]

FetchEnded == fpc \in {"returned", "raised"}

\* C1: a concurrent history fetch over a key list K ends by returning exactly
\* len(K) results, one per position of K, each carrying the key of its
\* position.
C1_OneResultPerKey ==
    FetchEnded =>
        /\ fpc = "returned"
        /\ Len(results) = Len(player_ids)
        /\ \A k \in PlayerIds :
              Cardinality({j \in 1..Len(results) : results[j].player_id = k})
                  = Cardinality({p \in Positions : player_ids[p] = k})

\* C2: a task whose fetch fails (network error, bad status, bad JSON, a body
\* that is no object) ends with (key, None) and never with an exception; the
\* other tasks deliver what the remote served them; nothing is cancelled or
\* left out of the returned list, and the call returns.
C2_FailureIsolated ==
    /\ \A p \in Positions :
          fstate[p] \in {"finished", "collected"} =>
              /\ ~futures[p].raised
              /\ collect_result(player_ids[p], futures[p]) = Expected(p)
    /\ (FetchEnded /\ \E p \in Positions : remote[p] = "failed") =>
          /\ fpc = "returned"
          /\ \A p \in Positions : fstate[p] = "collected" /\ requests[p] = 1
          /\ Len(results) = Len(player_ids)
          /\ \A p \in Positions :
                Occurrences(results, Expected(p))
                    = Cardinality({q \in Positions : Expected(q) = Expected(p)})

\* C2 witness: a returned call in which one task failed and another, after
\* it in the key list, delivered a non-empty history.
C2_Witness ==
    /\ fpc = "returned"
    /\ \E p, q \in Positions :
          /\ p < q
          /\ remote[p] = "failed" /\ remote[q] = "ok" /\ served[q] # <<>>
          /\ \E j \in 1..Len(results) :
                results[j] = [player_id |-> player_ids[p], isNone |-> TRUE,
                              history |-> <<>>]

\* ------------------------------------------------- insert_player_history
CallMade == scope \in {"body_done", "closed"}

WriteOps == {"executemany", "execute", "execute_values"}

BatchOps == {"executemany", "execute_values"}

\* The records of the statements of a call's log that ran without error, in
\* the order they were written.
RECURSIVE Written(_, _)
Written(log, e) ==
    IF e > Len(log) THEN <<>>
    ELSE (IF log[e].op \in WriteOps /\ log[e].exc = "none" THEN log[e].rows ELSE <<>>)
         \o Written(log, e + 1)

\* The records handed to the batch-level statements of a call, in order.
RECURSIVE Submitted(_, _)
Submitted(log, e) ==
    IF e > Len(log) THEN <<>>
    ELSE (IF log[e].op \in BatchOps THEN log[e].rows ELSE <<>>)
         \o Submitted(log, e + 1)

\* The row that the last record of ws with key k leaves; {} when none has it.
LastRow(ws, k) ==
    LET at == {j \in 1..Len(ws) : Key(ws[j]) = k}
    IN IF at = {} THEN {}
       ELSE {Row(ws[CHOOSE j \in at : \A h \in at : h <= j])}

DistinctKeys(rs) ==
    \A h, j \in 1..Len(rs) : h # j => Key(rs[h]) # Key(rs[j])

Commits(log) == {e \in 1..Len(log) : log[e].op = "commit"}

\* C3: when insert_player_history returned without error, under either
\* strategy, every row it wrote is in the committed table once the
\* DatabaseManager scope has released the connection.
C3_WrittenRowsCommitted ==
    (scope = "closed" /\ call.exc = "none") =>
        \A k \in NaturalKeys : LastRow(Written(call.log, 1), k) \subseteq table

\* The call's input is N >= 2 records with pairwise distinct keys of which
\* exactly one violates an integrity constraint and the others are accepted.
OneViolation(R) ==
    /\ Len(R) >= 2
    /\ DistinctKeys(R)
    /\ Cardinality({j \in 1..Len(R) : R[j].flaw = "IntegrityError"}) = 1
    /\ \A j \in 1..Len(R) : R[j].flaw \in {"none", "IntegrityError"}

\* C4: given N records of which exactly one violates a storage constraint,
\* the Standard upsert returns, the N-1 other rows are written and committed,
\* and exactly the key of the violating record is identified as failed.
C4_PartialFailureIsolation ==
    (CallMade /\ call.strategy = "standard" /\ OneViolation(call.input)) =>
        /\ call.exc = "none"
        /\ Commits(call.log) # {}
        /\ \A j \in 1..Len(call.input) :
              IF call.input[j].flaw = "none"
              THEN Row(call.input[j]) \in table
              ELSE call.failed = <<Key(call.input[j])>>

\* C5: when a multi-row batch upsert of the Optimized strategy raises an
\* integrity error, the call is not aborted: every record of that batch is
\* re-submitted individually, and the records that succeed are committed.
C5_OptimizedRetriesRows ==
    (CallMade /\ call.strategy = "optimized") =>
        \A e \in 1..Len(call.log) :
            (call.log[e].op = "execute_values" /\ call.log[e].exc = "IntegrityError") =>
                /\ call.exc = "none"
                /\ \A j \in 1..Len(call.log[e].rows) :
                      \E x \in (e + 1)..Len(call.log) :
                          /\ call.log[x].op = "execute"
                          /\ call.log[x].rows = <<call.log[e].rows[j]>>
                /\ \A j \in 1..Len(call.log[e].rows) :
                      call.log[e].rows[j].flaw = "none" =>
                          (scope = "closed" =>
                              \E r \in table : Key(r) = Key(call.log[e].rows[j]))

\* C6: a batch upsert that raises a data-type or other non-integrity storage
\* error is not retried row by row: the next and last thing the call does is
\* roll the transaction back, the error reaches the caller, the call never
\* commits, and the committed table is as the call found it.
C6_NonIntegrityErrorIsFatal ==
    CallMade =>
        \A e \in 1..Len(call.log) :
            (call.log[e].op \in BatchOps
             /\ call.log[e].exc \notin {"none", "IntegrityError"}) =>
                /\ Len(call.log) = e + 1
                /\ call.log[e + 1].op = "rollback"
                /\ call.exc = call.log[e].exc
                /\ Commits(call.log) = {}
                /\ table = call.before

\* C6 witness: the second batch of a Standard call raised a DataError after
\* the first batch had been written.
C6_Witness ==
    /\ scope = "body_done"
    /\ call.strategy = "standard"
    /\ Len(call.log) = 3
    /\ call.log[1].op = "executemany" /\ call.log[1].exc = "none"
    /\ call.log[2].op = "executemany" /\ call.log[2].exc = "DataError"
    /\ call.exc = "DataError"

Selected == sel.strategy \in {"standard", "optimized"}

\* C7 as stated: a record count below the threshold T uses the Standard
\* strategy and a count at or above T uses the Optimized strategy.
C7_AtOrAboveUsesOptimized ==
    Selected => (sel.strategy = "optimized" <=> sel.count >= sel.threshold)

\* C7: a record count up to and including the threshold T uses the Standard
\* strategy, a count above T uses the Optimized strategy; with the default
\* T = 100, 99 and 100 records use Standard and 101 records use Optimized.
C7_AboveUsesOptimized ==
    /\ Selected => (sel.strategy = "optimized" <=> sel.count > sel.threshold)
    /\ (sel.strategy # "unset" /\ sel.threshold = default_bulk_insert_threshold) =>
          /\ sel.count \in {99, 100} => sel.strategy = "standard"
          /\ sel.count = 101 => sel.strategy = "optimized"

\* C7 witness: exactly T = 100 records were given and Standard was selected.
C7_Witness ==
    sel = [count |-> default_bulk_insert_threshold,
           threshold |-> default_bulk_insert_threshold, strategy |-> "standard"]

\* The positions of R whose key no earlier position has.
FirstPositions(R) ==
    {j \in 1..Len(R) : \A h \in 1..(j - 1) : Key(R[h]) # Key(R[j])}

\* The positions of R that repeat the key of an earlier position.
DroppedPositions(R) ==
    {j \in 1..Len(R) : \E h \in 1..(j - 1) : Key(R[h]) = Key(R[j])}

\* The records of R at the positions I, in their order in R.
At(R, I) ==
    LET f == CHOOSE g \in [1..Cardinality(I) -> I] :
                \A a, b \in 1..Cardinality(I) : a < b => g[a] < g[b]
    IN [j \in 1..Cardinality(I) |-> R[f[j]]]

C9_NoDuplicateKeySubmitted ==
    CallMade => DistinctKeys(Submitted(call.log, 1))

\* C9: under the Optimized strategy no two records handed to the batch
\* upserts of a call have the same natural key; the Standard strategy hands
\* over the records as given, in order, duplicates of a key included.
C9_OptimizedSubmitsDistinctKeys ==
    CallMade =>
        /\ call.strategy = "optimized" => DistinctKeys(Submitted(call.log, 1))
        /\ call.strategy = "standard" =>
              Submitted(call.log, 1)
                  = SubSeq(call.input, 1, Len(Submitted(call.log, 1)))

\* C9 witness: an Optimized call whose input repeats a key submitted every
\* batch of the deduplicated sequence.
C9_Witness ==
    /\ scope = "body_done"
    /\ call.strategy = "optimized"
    /\ call.exc = "none"
    /\ ~DistinctKeys(call.input)
    /\ Len(Submitted(call.log, 1)) = Len(call.input) - 1

\* At most one row per natural key.
OneRowPerKey(rows) == \A r1, r2 \in rows : Key(r1) = Key(r2) => r1 = r2

\* C10: the committed table, and the rows a transaction sees, hold at most one
\* row per natural key, and the row of a key holds the values of the record
\* most recently upserted with that key.
C10_LastWriterWins ==
    /\ OneRowPerKey(table)
    /\ table = RowsOf(lastc)
    /\ conn.open => (OneRowPerKey(conn.view) /\ conn.view = RowsOf(conn.lastv))

\* C10 witness: a committed call overwrote the row of a key with other values
\* and inserted the row of a key that was absent.
C10_Witness ==
    /\ scope = "closed"
    /\ call.exc = "none"
    /\ \E r \in call.before, w \in table :
          Key(r) = Key(w) /\ r.total_points # w.total_points
    /\ \E w \in table : \A r \in call.before : Key(r) # Key(w)

\* C11: upserting the record sequence of the previous scope once more leaves
\* the committed table as the first upsert left it, under both strategies and
\* from every table the first upsert started on.
C11_Idempotent ==
    (CallMade /\ call.again) => table = call.before

\* C11 witness: a Standard upsert was repeated whose sequence holds two
\* records of one key with different values, and it was committed.
C11_Witness ==
    /\ scope = "closed"
    /\ call.again
    /\ call.strategy = "standard"
    /\ Commits(call.log) # {}
    /\ \E h, j \in 1..Len(call.input) :
          /\ h < j
          /\ Key(call.input[h]) = Key(call.input[j])
          /\ call.input[h].total_points # call.input[j].total_points
          /\ Row(call.input[j]) \in table

\* get_config() with the default thresholds and maintenance enabled or not.
DefaultConfig(enabled) ==
    [bulk_insert_threshold |-> default_bulk_insert_threshold,
     enable_vacuum_after_bulk |-> enabled,
     vacuum_threshold |-> default_vacuum_threshold]

\* C12: the upsert recommends maintenance exactly when it took the Optimized
\* strategy, returned, maintenance is enabled and the number of rows it wrote
\* is strictly greater than vacuum_threshold; with the default threshold 1000,
\* 1001 rows recommend it, 999 and 1000 rows do not, and nothing does with
\* maintenance disabled.
C12_MaintenanceRecommended ==
    /\ CallMade =>
          (call.should_vacuum <=>
              /\ call.strategy = "optimized"
              /\ call.exc = "none"
              /\ config.enable_vacuum_after_bulk
              /\ Len(Written(call.log, 1)) > config.vacuum_threshold)
    /\ (CallMade /\ call.input = <<>>) => ~call.should_vacuum
    /\ should_vacuum(DefaultConfig(TRUE), 1001)
    /\ ~should_vacuum(DefaultConfig(TRUE), 1000)
    /\ ~should_vacuum(DefaultConfig(TRUE), 999)
    /\ \A n \in {0, 999, 1000, 1001} : ~should_vacuum(DefaultConfig(FALSE), n)

\* C12 witness: an Optimized upsert that wrote one row more than the
\* threshold, after deduplication, recommended maintenance.
C12_Witness ==
    /\ scope = "body_done"
    /\ call.should_vacuum
    /\ Len(call.deduped) < Len(call.input)
    /\ Len(Written(call.log, 1)) = config.vacuum_threshold + 1

\* The entries of a call's log at which vacuum_analyze_table begins: its
\* first act is to set autocommit.
VacuumStarts(log) == {e \in 1..Len(log) : log[e].op = "set_autocommit"}

\* C13: when vacuum_analyze_table begins, the upsert that triggered it has
\* committed: a commit precedes it in the call and no statement has written
\* rows since that commit.
C13_VacuumAfterCommit ==
    CallMade =>
        \A e \in VacuumStarts(call.log) :
            \E c \in Commits(call.log) :
                /\ c < e
                /\ \A w \in (c + 1)..(e - 1) : call.log[w].op \notin WriteOps

\* C14: vacuum_analyze_table leaves the connection's autocommit as it found
\* it, whether VACUUM ANALYZE ran, failed, or was never reached.
C14_AutocommitRestored ==
    scope = "maintenance_done" => conn.autocommit = call.autocommit

\* C14 witness: on a connection with autocommit off, autocommit was set,
\* VACUUM ANALYZE failed, and autocommit is off again.
C14_Witness ==
    /\ scope = "maintenance_done"
    /\ ~call.autocommit /\ ~conn.autocommit
    /\ Len(call.log) = 3
    /\ call.log[1] = [op |-> "set_autocommit", rows |-> <<>>, exc |-> "none"]
    /\ call.log[2] = [op |-> "vacuum", rows |-> <<>>, exc |-> "OperationalError"]
    /\ call.log[3] = [op |-> "restore_autocommit", rows |-> <<>>, exc |-> "none"]

\* C15: a storage error of the maintenance statement, or of switching the
\* connection mode for it, does not leave vacuum_analyze_table: the call
\* returns normally, and so does insert_player_history, whose last step it is.
C15_VacuumFailureSwallowed ==
    VacuumStarts(call.log) # {} =>
        /\ call.exc = "none"
        /\ (scope = "closed" => exit_log = <<"close">>)

\* C15 witness: VACUUM ANALYZE raised and the call returned normally.
C15_Witness ==
    /\ scope = "maintenance_done"
    /\ call.exc = "none"
    /\ \E e \in 1..Len(call.log) :
          call.log[e].op = "vacuum" /\ call.log[e].exc = "OperationalError"

\* How often DatabaseManager.__exit__ made the call c on the connection.
ExitCount(c) == Cardinality({e \in 1..Len(exit_log) : exit_log[e] = c})

Queued == {p \in Positions : fstate[p] = "queued"}

\* C18: during fetch_player_history_batch with pool size W, at every moment
\* at most W fetch requests are in flight, whatever the key list and the
\* order in which the workers complete.
C18_AtMostWInFlight == Cardinality(Running) <= max_workers

\* The pool is saturated: W = 2 requests are in flight while a third task of
\* the same super-batch waits in the queue.
C18_Witness ==
    /\ max_workers = MaxWorkers
    /\ Cardinality(Running) = max_workers
    /\ Queued # {}

\* ------------------------------------ fetch_independent_endpoints_parallel
TwoFailed(e) == two.remote[e].status # "ok"

\* The entries of results['errors'] that report resource e.
ErrorsFor(e) == {j \in 1..Len(two.results.errors) : two.results.errors[j].key[1] = e}

\* C19: fetch_independent_endpoints_parallel always returns, and for each of
\* the two resources either its slot of the result map holds the payload that
\* was fetched or the error list holds one error string for it; the failure
\* of one resource does not keep the other's payload out of the result, in
\* either completion order. Before the return some step is always possible
\* (both tasks can run at once: the pool never holds a submitted task back).
C19_TwoWayFetchReturnsEach ==
    /\ two.pc \in {"start", "collect"} => ENABLED NextTwo
    /\ \A e \in Endpoints : two.task[e] = "queued" => ENABLED TwoStartTask(e)
    /\ two.pc = "returned" =>
          /\ \A e \in Endpoints :
                IF TwoFailed(e)
                THEN /\ two.results.data[e] = "None"
                     /\ Cardinality(ErrorsFor(e)) = 1
                     /\ \A j \in ErrorsFor(e) :
                           two.results.errors[j] =
                               [key |-> <<e, "error">>, value |-> two.remote[e].status]
                ELSE /\ two.results.data[e] = two.remote[e].body
                     /\ ErrorsFor(e) = {}
          /\ Len(two.results.errors) = Cardinality({e \in Endpoints : TwoFailed(e)})

\* The call returned after one resource failed and the other, whose fetch
\* completed later, delivered its payload.
C19_Witness ==
    /\ two.pc = "returned"
    /\ TwoFailed("bootstrap")
    /\ two.remote["fixtures"] = [status |-> "ok", body |-> "data"]
    /\ two.results.data["fixtures"] = "data"
    /\ Len(two.results.errors) = 1

\* --------------------------------------------------- entity groups, scopes
GroupsWritten == {g \in GroupNames : pipe.scope_of[g] # 0}

\* No two groups were written through the same scope.
OwnScopePerGroup ==
    \A g, h \in GroupsWritten : g # h => pipe.scope_of[g] # pipe.scope_of[h]

\* A group's insert function starts on a connection with no uncommitted rows
\* of another group: its transaction is its own.
OwnTransactionPerGroup == pipe.pc = "insert" => pipe.db.pending = {}

\* What the insert functions committed is in storage.
CommittedRemains == pipe.db.committed \subseteq pipe.db.stored

\* C17 as stated: in both pipeline modes each entity group is written in its
\* own scope and transaction and committed independently, so that the rows
\* committed for an earlier group remain in storage when a later group fails.
C17_OwnScopeAndTransaction ==
    /\ OwnScopePerGroup
    /\ OwnTransactionPerGroup
    /\ CommittedRemains

\* C17 as the code has it: each entity group is written in a transaction of
\* its own in both pipeline modes, and in a scope of its own in
\* run_new_pipeline only (run_bootstrap_pipeline writes all its groups through
\* one scope); the rows committed for an earlier group remain in storage when
\* a later group fails.
C17_OwnTransactionPerGroup ==
    /\ pipe.mode = "new" => OwnScopePerGroup
    /\ pipe.mode = "legacy" => \A g \in GroupsWritten : pipe.scope_of[g] = 1
    /\ OwnTransactionPerGroup
    /\ CommittedRemains

\* A run of run_bootstrap_pipeline failed in a later group after an earlier
\* group was committed through the same scope; the earlier rows are stored.
C17_Witness ==
    /\ pipe.pc = "failed"
    /\ pipe.mode = "legacy"
    /\ pipe.db.committed = {"teams"}
    /\ pipe.db.stored = {"teams"}
    /\ pipe.scope_of["players"] = pipe.scope_of["teams"]
    /\ pipe.scope_of["players"] # 0

\* ------------------------------------------------ fetch, parse and upsert
EndToEndDone == fpc = "returned" /\ scope \in {"closed", "skipped"}

\* Some (player_id, gameweek_id) row is stored for round g of position p.
Stored(p, g) ==
    \E row \in table : row.player_id = player_ids[p] /\ row.gameweek_id = g

\* C20: when the detail fetch of some entities fails, the result set has one
\* entry per entity, with a None payload exactly for the failed ones, and
\* parse and upsert still proceed: the records of every entity that was
\* fetched are in storage when the run is over.
C20_FetchedEntitiesWritten ==
    EndToEndDone =>
        /\ Len(results) = Len(player_ids)
        /\ \A p \in Positions :
              Occurrences(results, Expected(p))
                  = Cardinality({q \in Positions : Expected(q) = Expected(p)})
        /\ \A p \in Positions :
              remote[p] = "ok" =>
                  \A j \in 1..Len(served[p]) : Stored(p, served[p][j])

\* ------------------------------------------------------------ dry-run mode
RunEnded == app.pc = "exited"

TopFetchAllFailed == \A e \in Endpoints : app.results.data[e] # "data"

\* The per-player detail fetch was run and no player's fetch succeeded.
DetailFetchAllFailed ==
    /\ \A p \in PlayerIds : app.hist[p] # "unset"
    /\ \A p \in PlayerIds : app.hist[p] = "failed"

\* Every payload handed to the parser was rejected. The bootstrap payload is
\* one resource, each player's history payload is another.
ParseAllFailed ==
    /\ app.why = "parse_error"
    /\ \A p \in PlayerIds : app.hist[p] \in {"unset", "invalid"}

\* The upsert stage was run and every group it attempted raised.
UpsertAllFailed ==
    /\ \E g \in GroupNames : pipe.scope_of[g] # 0
    /\ pipe.db.committed = {}
    /\ "player_history" \notin pipe.db.pending

SomeStageAllFailed ==
    TopFetchAllFailed \/ DetailFetchAllFailed \/ ParseAllFailed \/ UpsertAllFailed

\* C22: the process exits non-zero only if every resource of some stage
\* failed; when at least one resource of every stage succeeded, the exit
\* status is zero.
C22_NonZeroOnlyIfStageFailed ==
    (RunEnded /\ app.status = 1) => SomeStageAllFailed

\* ------------------------------------------------------------ parse errors
\* C23: a payload that fails to parse is confined to its resource: its
\* records never enter the batch, the records of the other resources are
\* parsed into it, and the pipeline goes on to upsert them.
C23_ParseErrorConfined ==
    (RunEnded /\ \E p, q \in PlayerIds : app.hist[p] = "invalid" /\ app.hist[q] = "ok") =>
        /\ app.batch = {p \in PlayerIds : app.hist[p] = "ok"}
        /\ app.why # "parse_error"
        /\ (~app.dry_run /\ app.batch # {}) => pipe.scope_of["player_history"] # 0

\* ------------------------------------------------------------- batch order
BatchEntries(log) == {e \in 1..Len(log) : log[e].op \in BatchOps}

\* The number of the batch submitted by entry e of the log, from 1.
BatchNo(log, e) == Cardinality({f \in BatchEntries(log) : f <= e})

\* The list the strategy of the call cuts into batches.
BatchedData ==
    IF call.strategy = "optimized" THEN call.deduped ELSE call.input

\* C24: within one upsert call the batches are submitted strictly in input
\* order and one at a time: the b-th batch statement carries the b-th slice of
\* batch_size records of the list, and between it and the next batch
\* statement only the row-by-row retries of its own records run.
C24_BatchesInInputOrder ==
    CallMade =>
        \A e \in BatchEntries(call.log) :
            /\ call.log[e].rows =
                   SubSeq(BatchedData, (BatchNo(call.log, e) - 1) * batch_size + 1,
                          Min(BatchNo(call.log, e) * batch_size, Len(BatchedData)))
            /\ \A f \in BatchEntries(call.log) :
                  f > e =>
                      /\ call.log[e].exc \in {"none", "IntegrityError"}
                      /\ \A w \in (e + 1)..(f - 1) :
                            BatchNo(call.log, w) = BatchNo(call.log, e) =>
                                /\ call.log[w].op = "execute"
                                /\ \E j \in 1..Len(call.log[e].rows) :
                                      call.log[w].rows = <<call.log[e].rows[j]>>

\* A call whose list of three distinct records went to storage in two
\* batches.
C24_Witness ==
    /\ CallMade
    /\ Len(BatchedData) = MaxLen
    /\ Cardinality(BatchEntries(call.log)) = 2
    /\ BatchedData[1] # BatchedData[MaxLen]
    /\ call.exc = "none"

\* ------------------------------------------------------------ fatal errors
\* The call ended with a storage error that is no constraint violation.
FatalEnd == CallMade /\ call.exc \notin {"none", "IntegrityError"}

\* C25: when an upsert call ends with a fatal storage error, none of its rows
\* are committed, the rows of the batches that went through before the
\* failing batch included: storage is as it was when the call started.
C25_FatalErrorCommitsNothing ==
    FatalEnd =>
        /\ table = call.before
        /\ Commits(call.log) = {}
        /\ \E e \in 1..Len(call.log) : call.log[e].op = "rollback"

\* A call that raised on its second batch after the first batch had been
\* submitted without error.
C25_Witness ==
    /\ FatalEnd
    /\ Cardinality(BatchEntries(call.log)) = 2
    /\ call.log[1].op \in BatchOps
    /\ call.log[1].exc = "none"
    /\ \E r \in call.before : r.total_points # call.log[1].rows[1].total_points
                              /\ Key(r) = Key(call.log[1].rows[1])

\* -------------------------------------------- integrity error in a batch
\* C26: when a batch-level upsert raises an integrity error in a batched
\* insert function, the function handles it, returns without raising, and
\* commits exactly once.
C26_IntegrityErrorHandledOneCommit ==
    (CallMade /\ \E e \in BatchEntries(call.log) : call.log[e].exc = "IntegrityError") =>
        /\ call.exc = "none"
        /\ Cardinality(Commits(call.log)) = 1

SuperBatchOf(p) == (p - 1) \div (5 * max_workers)

\* Super-batches of a run: ceil(len / (5 x W)).
SuperBatches == (Len(player_ids) + 5 * max_workers - 1) \div (5 * max_workers)

SubmittedKeys == {p \in Positions : fstate[p] # "new"}

\* C28: the keys are taken in input order in consecutive super-batches of
\* exactly 5 x W keys (the last may be shorter), each submitted whole, and no
\* task of a super-batch is submitted before every task of the earlier
\* super-batches has completed and its result was collected.
C28_SuperBatchesInOrderOneAtATime ==
    /\ fpc = "collect" =>
          SubmittedKeys = {p \in Positions : SuperBatchOf(p) <= SuperBatchOf(i + 1)}
    /\ fpc \in {"loop", "returned"} =>
          SubmittedKeys = {p \in Positions : p <= i}
    /\ \A p \in SubmittedKeys : \A q \in Positions :
          SuperBatchOf(q) < SuperBatchOf(p) =>
              /\ fstate[q] = "collected"
              /\ \E j \in 1..Len(results) : results[j].player_id = player_ids[q]

\* The second super-batch is submitted after a full first one was collected.
C28_Witness ==
    /\ fpc = "collect"
    /\ Len(player_ids) = 5 * max_workers + 1
    /\ fstate[Len(player_ids)] = "queued"
    /\ \A q \in 1..(5 * max_workers) : fstate[q] = "collected"

\* C29: exactly one pacing sleep between a super-batch and the next, none
\* after the last: a run of n >= 1 super-batches sleeps n - 1 times.
C29_OneSleepBetweenSuperBatches ==
    /\ (fpc = "collect" \/ (fpc = "loop" /\ i < Len(player_ids))) =>
          sleeps = SuperBatchOf(i + 1)
    /\ (fpc = "returned" /\ SuperBatches >= 1) => sleeps = SuperBatches - 1

\* A run of two super-batches has returned.
C29_Witness ==
    /\ fpc = "returned"
    /\ SuperBatches = 2
    /\ sleeps = 1

\* C30: exactly one remote request per key position in a run: no retry of a
\* failed or timed-out request, no second request after a success.
C30_OneRequestPerPosition ==
    /\ \A p \in Positions : requests[p] <= 1
    /\ \A p \in Positions : remote[p] # "unset" => requests[p] = 1
    /\ fpc = "returned" => \A p \in Positions : requests[p] = 1

\* A run has returned in which one request failed and another succeeded.
C30_Witness ==
    /\ fpc = "returned"
    /\ \E p, q \in Positions : remote[p] = "failed" /\ remote[q] = "ok"

\* ------------------------------------------------------------- termination
\* Nothing of the call is pending: every task was run and its result taken.
NothingPending ==
    /\ \A p \in Positions : fstate[p] = "collected"
    /\ Len(results) = Len(player_ids)

\* C31: when every request completes or times out and the workers are
\* scheduled fairly, the fetch eventually returns, for every finite key
\* list, with no worker and no result left pending.
C31_FetchEventuallyReturns == <>(fpc = "returned" /\ NothingPending)

\* The same for the key lists that hold at least one key.
C31_NonEmptyEventuallyReturns ==
    (player_ids # <<>>) => <>(fpc = "returned" /\ NothingPending)

\* C32: the fetch called with an empty key list returns an empty result
\* list, without raising and without any request or sleep.
C32_EmptyKeyListReturnsEmpty ==
    (FetchEnded /\ player_ids = <<>>) =>
        /\ fpc = "returned"
        /\ results = <<>>
        /\ sleeps = 0
        /\ \A p \in Positions : requests[p] = 0

\* -------------------------------------------------------- current gameweek
\* Positions of the payload's events that are flagged current.
CurrentEvents == {j \in 1..Len(period.events) : is_current(period.events[j])}

FirstCurrent == CHOOSE j \in CurrentEvents : \A k \in CurrentEvents : j <= k

PeriodDone == period.pc \in {"resolved", "parsed", "failed"}

C33_WitnessFallback ==
    /\ period.pc = "parsed"
    /\ period.has_events /\ Len(period.events) = MaxEvents
    /\ CurrentEvents = {}
    /\ period.stats_gameweek_id = 1

\* ------------------------------------------------- order of the new groups
WriteOrder == <<"gameweeks", "teams", "players", "player_stats", "player_history">>

\* The group at place a of the order was handed to its insert function.
Attempted(a) == pipe.scope_of[WriteOrder[a]] > 0

\* C35: run_new_pipeline writes the groups in the order gameweeks, teams,
\* players, player stats, player history; when the insertion of a group
\* raises, no later group is attempted, no further connection is opened and
\* the pipeline returns False.
C35_FixedOrderStopAtFirstRaise ==
    pipe.mode = "new" =>
        /\ \A a, b \in 1..Len(WriteOrder) :
              (a < b /\ Attempted(b)) =>
                  /\ Attempted(a) => pipe.scope_of[WriteOrder[a]] < pipe.scope_of[WriteOrder[b]]
                  /\ WriteOrder[a] \in pipe.present => Attempted(a)
        /\ pipe.db.exc # "none" =>
              /\ pipe.pc \in {"exit", "failed"}
              /\ \E a \in 1..Len(WriteOrder) :
                    /\ pipe.scope_of[WriteOrder[a]] = pipe.scopes
                    /\ \A b \in 1..Len(WriteOrder) : b > a => ~Attempted(b)
        /\ pipe.pc = "failed" =>
              /\ pipe.db.exc # "none"
              /\ pipe.ret = "False"
              /\ ~pipe.db.open
              /\ ~ENABLED NextPipe
        /\ pipe.pc = "done" => \A g \in pipe.present : pipe.scope_of[g] > 0

\* The insertion of players raised after gameweeks and teams were written;
\* player stats and player history were waiting.
C35_Witness ==
    /\ pipe.mode = "new"
    /\ pipe.pc = "failed"
    /\ pipe.present = {"gameweeks", "teams", "players", "player_stats", "player_history"}
    /\ pipe.db.committed = {"gameweeks", "teams"}
    /\ pipe.scope_of["players"] = pipe.scopes
    /\ pipe.scope_of["player_stats"] = 0

\* ---------------------------------------------- fetches before connections
\* Fetch tasks submitted to a pool and not finished.
TasksInFlight ==
    {e \in Endpoints : two.task[e] \in {"queued", "running"}}
    \cup {p \in Positions : fstate[p] \in {"queued", "running"}}

\* C34: in run_new_pipeline no storage connection is open while a fetch
\* worker is in flight: once the first connection scope is entered every
\* top-level and per-entity fetch has completed, and no fetch is started
\* after it.
C34_NoConnectionWhileFetching ==
    (pipe.scopes > 0 \/ pipe.db.open) =>
        /\ TasksInFlight = {}
        /\ two.pc = "returned"
        /\ fpc \in {"idle", "returned"}
        /\ ~ENABLED OrderFetch
        /\ ~ENABLED OrderHistoryFetch
        /\ ~ENABLED TwoSubmit
        /\ ~ENABLED SubmitBatch

\* The connection of the player-history scope is open after a history fetch
\* that ran two workers' requests.
C34_Witness ==
    /\ pipe.db.open
    /\ pipe.pc = "insert"
    /\ PipeGroups[pipe.k] = "player_history"
    /\ fpc = "returned"
    /\ \A p \in Positions : requests[p] = 1
    /\ two.pc = "returned"

\* ------------------------------------------- duplicate keys, both strategies
\* Positions of the call's input that carry the natural key k.
InputPositions(k) == {j \in 1..Len(call.input) : Key(call.input[j]) = k}

FirstOf(J) == CHOOSE j \in J : \A h \in J : j <= h

LastOf(J) == CHOOSE j \in J : \A h \in J : h <= j

\* rows after one upsert per key of the call's input, for an input without
\* duplicate keys.
UpsertedOnce(rows) ==
    {r \in rows : InputPositions(Key(r)) = {}}
    \cup {Row(call.input[j]) : j \in 1..Len(call.input)}

\* What C36 says of a set of rows that a call has left.
DuplicatesResolved(rows) ==
    /\ \A k \in NaturalKeys :
          (\E h, j \in InputPositions(k) :
              call.input[h].total_points # call.input[j].total_points) =>
              /\ call.strategy = "standard" =>
                    Row(call.input[LastOf(InputPositions(k))]) \in rows
              /\ call.strategy = "optimized" =>
                    Row(call.input[FirstOf(InputPositions(k))]) \in rows
    /\ DistinctKeys(call.input) => rows = UpsertedOnce(call.before)

\* C36: of several records with one natural key and different values the
\* row finally stored holds the values of the last one in input order under
\* the Standard strategy and of the first one under the Optimized strategy;
\* without duplicate keys both strategies leave the same storage state.
C36_DuplicateKeysLastOrFirst ==
    (scope = "closed" /\ call.exc = "none") => DuplicatesResolved(table)

\* The same of the rows the call's transaction sees when the call returns.
C36_InTransactionView ==
    (scope = "body_done" /\ call.exc = "none") => DuplicatesResolved(conn.view)

\* The same of the committed table for the calls that took the Standard
\* strategy.
C36_StandardStored ==
    (scope = "closed" /\ call.exc = "none" /\ call.strategy = "standard") =>
        DuplicatesResolved(table)

\* --------------------------------------------- the retry, row by row
\* Log entries of batch statements that raised an integrity error.
FailedBatches ==
    {e \in 1..Len(call.log) :
        call.log[e].op = "executemany" /\ call.log[e].exc = "IntegrityError"}

RetriedRows == {x \in 1..Len(call.log) : call.log[x].op = "execute"}

\* C37: in the Standard strategy the row-by-row retry after a batch-level
\* integrity error runs on the same connection and in the same open
\* transaction as the failed batch statement, with no rollback and no
\* savepoint before the first retried row; only an integrity error of a
\* retried row is skipped, any other error of a retried row aborts the call
\* with a rollback.
C37_RetryInsideFailedTransaction ==
    (CallMade /\ call.strategy = "standard") =>
        /\ \A e \in FailedBatches :
              /\ e < Len(call.log)
              /\ call.log[e + 1].op = "execute"
              /\ call.log[e + 1].rows = <<call.log[e].rows[1]>>
              /\ ~call.autocommit => call.log[e + 1].exc = "InternalError"
        /\ \A x \in RetriedRows :
              /\ call.log[x].exc = "IntegrityError" =>
                    /\ x < Len(call.log)
                    /\ call.log[x + 1].op # "rollback"
              /\ call.log[x].exc \notin {"none", "IntegrityError"} =>
                    /\ x + 1 = Len(call.log)
                    /\ call.log[x + 1].op = "rollback"
                    /\ call.exc = call.log[x].exc

\* A batch of two rows failed on its second row, the first row was retried in
\* the failed transaction, and the call was rolled back and raised.
C37_Witness ==
    /\ scope = "body_done"
    /\ call.strategy = "standard"
    /\ \E e \in FailedBatches :
          /\ Len(call.log[e].rows) = 2
          /\ call.log[e].rows[1].flaw = "none"
          /\ call.log[e + 1].exc = "InternalError"
          /\ Len(call.log) = e + 2
    /\ call.exc = "InternalError"

\* ----------------------------------------------- exit on a lost connection
CloseCalled == \E e \in 1..Len(mgr.calls) : mgr.calls[e] = "close"

\* C38: when the body of a DatabaseManager scope raises and the rollback on
\* exit raises too, the connection is still closed before the scope is left;
\* a failure while closing is swallowed and never replaces the body's
\* exception.
C38_ClosedEvenIfRollbackRaises ==
    mgr.pc = "left" =>
        /\ (mgr.body_exc # "none" /\ mgr.rollback_exc # "none") =>
              /\ CloseCalled
              /\ mgr.close_exc = "none" => ~mgr.open
        /\ (CloseCalled /\ mgr.close_exc # "none") => mgr.leaves = mgr.body_exc

\* The part about the close alone: whenever close_connection runs and
\* conn.close() raises, the exception that leaves the scope is the body's.
C38_CloseFailureSwallowed ==
    (mgr.pc = "left" /\ CloseCalled /\ mgr.close_exc # "none") =>
        mgr.leaves = mgr.body_exc

\* When the rollback on exit succeeds or is not needed, the connection is
\* closed (if conn.close() goes through) before the scope is left.
C38_ClosedWhenRollbackSucceeds ==
    (mgr.pc = "left" /\ (mgr.body_exc = "none" \/ mgr.rollback_exc = "none")) =>
        /\ CloseCalled
        /\ mgr.close_exc = "none" => ~mgr.open

====
